---- MODULE Spec2Model ----
(***************************************************************************)
(* SelectQueryBuilder (src/query-builder/SelectQueryBuilder.ts): the       *)
(* execution orchestrator.  Every async method of the builder is a frame   *)
(* on a call stack; every await is a step.  The driver (query runner), the *)
(* result cache and the hydration pipeline are the environment: each of    *)
(* their calls succeeds or fails nondeterministically.                     *)
(***************************************************************************)
EXTENDS Integers, Sequences, FiniteSets, TLC

VARIABLES
    connection,     \* this.connection: driver, options.cache, queryResultCache
    metadata,       \* expressionMap.mainAlias.metadata: version / update-date columns
    db,             \* the rows the database holds for the main entity
    builders,       \* builder id -> [expressionMap, queryRunner]
    frames,         \* call stack of the async methods in progress
    runners,        \* query runner -> [isTransactionActive, released]
    cache,          \* the result-cache store: key -> entry
    clock,          \* new Date().getTime()
    streamOpen,     \* the release callback handed to queryRunner.stream, not yet invoked
    outcome,        \* what the last top-level call returned or threw
    calls,          \* top-level calls: made so far, and how many the caller makes
    hist            \* per top-level call: what the orchestrator asked of its collaborators

vars == <<connection, metadata, db, builders, frames, runners, cache, clock,
          streamOpen, outcome, calls, hist>>

----------------------------------------------------------------------------
(* Bounds *)

MaxVersion == 1     \* version numbers range over 0..MaxVersion
MaxCalls == 2       \* top-level calls on one cache-enabled builder
SingleCall == 1     \* top-level calls on a builder of the lock / transaction scenarios
MaxRows == 2        \* rows of the main entity in the database
MaxTicks == 1       \* clock advances; one tick is TickMs milliseconds
MaxFanOut == 2      \* children per parent row, and values of the child column
MaxNumber == 2      \* limit, offset, skip and take range over 0..MaxNumber
MaxPredicates == 2  \* elements of the where list and of the having list
MaxSelects == 3     \* elements of the select list
MaxMutations == 3   \* mutator calls on one builder
MaxPrimaryColumns == 2  \* primary columns of the main entity

TickMs == 1500
DefaultDuration == 1000

----------------------------------------------------------------------------
(* Values *)

NoLock == "undefined"

LockModes == {NoLock, "optimistic", "pessimistic_read", "pessimistic_write", "dirty_read",
              "pessimistic_partial_write", "pessimistic_write_or_fail", "for_no_key_update"}

Drivers == {"mysql", "aurora-data-api", "postgres", "oracle", "mssql", "sqlite", "sap", "cockroachdb"}

Methods == {"getRawOne", "getRawMany", "getRawAndEntities", "getOne", "getOneOrFail",
            "getMany", "getCount", "getManyAndCount", "stream"}

BuilderIds == {"qb", "ids", "count", "page"}

\* An optional number (limit, offset, skip, take, cacheDuration) is <<>> when
\* undefined and <<n>> otherwise; an optional string (cacheId) is a sequence
\* of its parts, <<>> when undefined.
Undefined == <<>>
Some(n) == <<n>>
Truthy_defined(x) == x # Undefined

Truthy(x) == x # Undefined /\ x[1] # 0

NoVersion == [t |-> "undefined", v |-> 0]
Num(n) == [t |-> "number", v |-> n]
Date(n) == [t |-> "date", v |-> n]
Str(n) == [t |-> "string", v |-> n]

Thrown(e) == [throws |-> e]
Sql(text) == [sql |-> text]
IsThrown(r) == "throws" \in DOMAIN r

KW(s) == [k |-> "text", s |-> s, n |-> 0]
N(x) == [k |-> "number", s |-> "", n |-> x[1]]

----------------------------------------------------------------------------
(* Clause compilers used on the execution path *)

PessimisticModes == {"pessimistic_read", "pessimistic_write", "pessimistic_partial_write",
                     "pessimistic_write_or_fail", "for_no_key_update"}

createLockExpression(driver, em) ==
    LET lockTablesClause == IF em.lockTables # Undefined
                            THEN <<KW("OF")>> \o [i \in 1..Len(em.lockTables[1]) |-> KW(em.lockTables[1][i])]
                            ELSE <<>>
        NotSupported == Thrown("LockNotSupportedOnGivenDriverError")
    IN
    IF em.lockTables # Undefined /\ driver # "postgres"
        THEN Thrown("TypeORMError")
    ELSE IF em.lockTables # Undefined /\ Len(em.lockTables[1]) < 1
        THEN Thrown("TypeORMError")
    ELSE CASE em.lockMode = "pessimistic_read" ->
                 IF driver \in {"mysql", "aurora-data-api"} THEN Sql(<<KW("LOCK IN SHARE MODE")>>)
                 ELSE IF driver = "postgres" THEN Sql(<<KW("FOR SHARE")>> \o lockTablesClause)
                 ELSE IF driver = "oracle" THEN Sql(<<KW("FOR UPDATE")>>)
                 ELSE IF driver = "mssql" THEN Sql(<<>>)
                 ELSE NotSupported
           [] em.lockMode = "pessimistic_write" ->
                 IF driver \in {"mysql", "aurora-data-api", "oracle"} THEN Sql(<<KW("FOR UPDATE")>>)
                 ELSE IF driver = "postgres" THEN Sql(<<KW("FOR UPDATE")>> \o lockTablesClause)
                 ELSE IF driver = "mssql" THEN Sql(<<>>)
                 ELSE NotSupported
           [] em.lockMode = "pessimistic_partial_write" ->
                 IF driver = "postgres"
                     THEN Sql(<<KW("FOR UPDATE")>> \o lockTablesClause \o <<KW("SKIP LOCKED")>>)
                 ELSE IF driver = "mysql" THEN Sql(<<KW("FOR UPDATE SKIP LOCKED")>>)
                 ELSE NotSupported
           [] em.lockMode = "pessimistic_write_or_fail" ->
                 IF driver = "postgres"
                     THEN Sql(<<KW("FOR UPDATE")>> \o lockTablesClause \o <<KW("NOWAIT")>>)
                 ELSE IF driver = "mysql" THEN Sql(<<KW("FOR UPDATE NOWAIT")>>)
                 ELSE NotSupported
           [] em.lockMode = "for_no_key_update" ->
                 IF driver = "postgres" THEN Sql(<<KW("FOR NO KEY UPDATE")>> \o lockTablesClause)
                 ELSE NotSupported
           [] OTHER -> Sql(<<>>)

\* The (limit, offset) pair the clause is rendered from: the model's own pair,
\* or (take, skip) when neither is set and nothing is joined.
limitOffsetPair(em) ==
    IF ~Truthy(em.offset) /\ ~Truthy(em.limit) /\ em.joins = 0
    THEN [limit |-> em.take, offset |-> em.skip]
    ELSE [limit |-> em.limit, offset |-> em.offset]

offsetWithoutLimitNotSupported_mysqlOnly(driver) == driver = "mysql"

\* driver instanceof MysqlDriver || AuroraDataApiDriver || SapDriver
offsetWithoutLimitNotSupported(driver) == driver \in {"mysql", "aurora-data-api", "sap"}

createLimitOffsetExpression(driver, em) ==
    LET offset == limitOffsetPair(em).offset
        limit == limitOffsetPair(em).limit
        prefix == IF (Truthy(limit) \/ Truthy(offset)) /\ Len(em.orderBys) <= 0
                  THEN <<KW("ORDER BY (SELECT NULL)")>> ELSE <<>>
    IN
    IF driver = "mssql" THEN
        IF Truthy(limit) /\ Truthy(offset)
            THEN Sql(prefix \o <<KW("OFFSET"), N(offset), KW("ROWS FETCH NEXT"), N(limit), KW("ROWS ONLY")>>)
        ELSE IF Truthy(limit)
            THEN Sql(prefix \o <<KW("OFFSET 0 ROWS FETCH NEXT"), N(limit), KW("ROWS ONLY")>>)
        ELSE IF Truthy(offset) THEN Sql(prefix \o <<KW("OFFSET"), N(offset), KW("ROWS")>>)
        ELSE Sql(<<>>)
    ELSE IF offsetWithoutLimitNotSupported(driver) THEN
        IF Truthy(limit) /\ Truthy(offset) THEN Sql(<<KW("LIMIT"), N(limit), KW("OFFSET"), N(offset)>>)
        ELSE IF Truthy(limit) THEN Sql(<<KW("LIMIT"), N(limit)>>)
        ELSE IF Truthy(offset) THEN Thrown("OffsetWithoutLimitNotSupportedError")
        ELSE Sql(<<>>)
    ELSE IF driver = "sqlite" THEN
        IF Truthy(limit) /\ Truthy(offset) THEN Sql(<<KW("LIMIT"), N(limit), KW("OFFSET"), N(offset)>>)
        ELSE IF Truthy(limit) THEN Sql(<<KW("LIMIT"), N(limit)>>)
        ELSE IF Truthy(offset) THEN Sql(<<KW("LIMIT -1 OFFSET"), N(offset)>>)
        ELSE Sql(<<>>)
    ELSE IF driver = "oracle" THEN
        IF Truthy(limit) /\ Truthy(offset)
            THEN Sql(<<KW("OFFSET"), N(offset), KW("ROWS FETCH NEXT"), N(limit), KW("ROWS ONLY")>>)
        ELSE IF Truthy(limit) THEN Sql(<<KW("FETCH NEXT"), N(limit), KW("ROWS ONLY")>>)
        ELSE IF Truthy(offset) THEN Sql(<<KW("OFFSET"), N(offset), KW("ROWS")>>)
        ELSE Sql(<<>>)
    ELSE
        IF Truthy(limit) /\ Truthy(offset) THEN Sql(<<KW("LIMIT"), N(limit), KW("OFFSET"), N(offset)>>)
        ELSE IF Truthy(limit) THEN Sql(<<KW("LIMIT"), N(limit)>>)
        ELSE IF Truthy(offset) THEN Sql(<<KW("OFFSET"), N(offset)>>)
        ELSE Sql(<<>>)

\* The table hint createSelectExpression appends to the FROM clause on SQL Server.
selectLockHint(driver, em) ==
    IF driver = "mssql" THEN
        CASE em.lockMode = "pessimistic_read" -> <<KW("WITH (HOLDLOCK, ROWLOCK)")>>
          [] em.lockMode = "pessimistic_write" -> <<KW("WITH (UPDLOCK, ROWLOCK)")>>
          [] em.lockMode = "dirty_read" -> <<KW("WITH (NOLOCK)")>>
          [] OTHER -> <<>>
    ELSE <<>>

\* createHavingExpression: " HAVING " and the conditions, each but the first
\* after its AND / OR; a simple condition stands bare wherever it is.
RECURSIVE havingConditions(_, _)
havingConditions(havings, index) ==
    IF index > Len(havings) THEN <<>>
    ELSE LET having == havings[index]
             combinator == CASE having.type = "and" /\ index > 1 -> <<KW("AND")>>
                             [] having.type = "or" /\ index > 1 -> <<KW("OR")>>
                             [] OTHER -> <<>>
         IN  combinator \o <<KW(having.condition)>> \o havingConditions(havings, index + 1)

createHavingExpression(em) ==
    IF Len(em.havings) = 0 THEN <<>>
    ELSE IF Len(em.havings) = 1 /\ em.havings[1].condition = "" THEN <<>>
    ELSE <<KW("HAVING")>> \o havingConditions(em.havings, 1)

\* getQuery: the clauses in their fixed order.  The select/join/where part of
\* the text is the builder's query shape followed by the ids of the appended
\* condition of the second pagination phase; then having, limit/offset and lock.
getQuery(driver, em) ==
    LET limitOffset == createLimitOffsetExpression(driver, em)
        lock == createLockExpression(driver, em)
        ids == em.extraAppendedAndWhereCondition
    IN  IF IsThrown(limitOffset) THEN limitOffset
        ELSE IF IsThrown(lock) THEN lock
        ELSE Sql(<<KW(em.query)>> \o selectLockHint(driver, em)
                 \o [i \in 1..Len(ids) |-> N(<<ids[i]>>)]
                 \o createHavingExpression(em)
                 \o limitOffset.sql \o lock.sql)

----------------------------------------------------------------------------
(* Collaborators: cache options, the result cache, the database, hydration *)

\* typeof connection.options.cache === "object" ? connection.options.cache : {}
cacheOptions ==
    IF connection.options.cache.t = "object" THEN connection.options.cache
    ELSE [t |-> "object", alwaysEnabled |-> FALSE, ignoreErrors |-> FALSE, duration |-> Undefined]

cacheEnabled(em) ==
    connection.queryResultCache /\ (em.cache \/ cacheOptions.alwaysEnabled)

cacheDurationOf(em) ==
    IF Truthy(em.cacheDuration) THEN em.cacheDuration[1]
    ELSE IF Truthy(cacheOptions.duration) THEN cacheOptions.duration[1]
    ELSE DefaultDuration

\* The result cache finds an entry by its identifier when one is given and by
\* the query text otherwise.
cacheKey(options) ==
    IF options.identifier # Undefined THEN [identifier |-> options.identifier]
    ELSE [query |-> options.query]

getFromCache(options) ==
    IF cacheKey(options) \in DOMAIN cache THEN <<cache[cacheKey(options)]>> ELSE Undefined

isExpired(savedCache) == savedCache.time + savedCache.duration < clock

storeInCache(options) ==
    [k \in DOMAIN cache \cup {cacheKey(options)} |->
        IF k = cacheKey(options) THEN options ELSE cache[k]]

\* JSON.stringify turns a Date into its ISO string; JSON.parse does not turn
\* it back.
JSONstringify(records) ==
    [json |-> [i \in 1..Len(records) |->
                 [c \in DOMAIN records[i] |->
                     IF records[i][c].t = "date" THEN Str(records[i][c].v) ELSE records[i][c]]]]

JSONparse(text) == text.json

\* Rows of a sequence from position offset+1 on, at most limit of them.
Window(rows, limit, offset) ==
    LET o == IF Truthy(offset) THEN offset[1] ELSE 0
        rest == SubSeq(rows, o + 1, Len(rows))
    IN  IF Truthy(limit) /\ limit[1] < Len(rest) THEN SubSeq(rest, 1, limit[1]) ELSE rest

\* A row of the main entity's table without a join, and the rows a parent
\* contributes to a (left) join with its children: one per child, or one with
\* a null child.
Null == [t |-> "null", v |-> 0]

mainRow(r) == [id |-> r.id, version |-> r.version, updateDate |-> r.updateDate]

joinedRows(r) ==
    IF r.children = <<>>
    THEN <<[id |-> r.id, version |-> r.version, updateDate |-> r.updateDate, child |-> Null]>>
    ELSE [j \in 1..Len(r.children) |->
             [id |-> r.id, version |-> r.version, updateDate |-> r.updateDate,
              child |-> Num(r.children[j])]]

RECURSIVE Flatten(_)
Flatten(seqs) == IF seqs = <<>> THEN <<>> ELSE Head(seqs) \o Flatten(Tail(seqs))

\* ORDER BY: row a sorts strictly before row b.
RECURSIVE Before(_, _, _)
Before(a, b, orderBys) ==
    IF orderBys = <<>> THEN FALSE
    ELSE LET x == a[Head(orderBys).col].v
             y == b[Head(orderBys).col].v
         IN  IF x = y THEN Before(a, b, Tail(orderBys))
             ELSE IF Head(orderBys).order = "ASC" THEN x < y ELSE x > y

\* The rows in the order of orderBys; rows that tie keep their order.
OrderBy(rows, orderBys) ==
    LET precedes(i, j) == Before(rows[i], rows[j], orderBys)
                          \/ (~Before(rows[j], rows[i], orderBys) /\ i < j)
        rank(i) == Cardinality({j \in 1..Len(rows) : precedes(j, i)}) + 1
    IN  [k \in 1..Len(rows) |-> rows[CHOOSE i \in 1..Len(rows) : rank(i) = k]]

\* SELECT DISTINCT: the first occurrence of every row.
Distinct(rows) ==
    LET first(i) == \A j \in 1..(i - 1) : rows[j] # rows[i]
        kept == {i \in 1..Len(rows) : first(i)}
        nth(k) == CHOOSE i \in kept : Cardinality({j \in kept : j < i}) = k - 1
    IN  [k \in 1..Cardinality(kept) |-> rows[nth(k)]]

\* What the database answers to a query over the main entity's table: its
\* rows (joined to their children when the query joins), restricted to the
\* appended condition, ordered, and cut to the limit and offset.
selectRecords(em) ==
    LET ids == em.extraAppendedAndWhereCondition
        matching == IF ids = <<>> THEN db
                    ELSE SelectSeq(db, LAMBDA r : \E i \in 1..Len(ids) : ids[i] = r.id.v)
        rows == IF em.joins > 0 THEN Flatten([i \in 1..Len(matching) |-> joinedRows(matching[i])])
                ELSE [i \in 1..Len(matching) |-> mainRow(matching[i])]
    IN  IF em.query = "count" THEN <<[cnt |-> Num(Len(matching))]>>
        ELSE Window(OrderBy(rows, em.orderBys), limitOffsetPair(em).limit, limitOffsetPair(em).offset)

\* What the database answers to the query a builder compiles to.  The first
\* pagination phase selects DISTINCT the primary key and the selected order
\* columns from its sub-query, ordered, and cut to the limit and offset.
queryRecords(em) ==
    IF em.query = "ids" THEN
        LET source == OrderBy(selectRecords(em.from[1]), em.orderBys)
            columns == {"ids"} \cup {em.selects[i].selection : i \in 1..Len(em.selects)}
            projected == [i \in 1..Len(source) |->
                             [c \in columns |-> IF c = "ids" THEN source[i].id ELSE source[i][c]]]
        IN  Window(Distinct(projected), limitOffsetPair(em).limit, limitOffsetPair(em).offset)
    ELSE selectRecords(em)

\* RawSqlResultsToEntityTransformer: one entity per main-entity id among the
\* raw rows, in the order of its first row; a date column is hydrated to a
\* Date whether the row carries a Date or its ISO string.  A row without the
\* entity's columns yields no entity.
transform(rawResults) ==
    LET own == SelectSeq(rawResults, LAMBDA r : {"id", "version", "updateDate"} \subseteq DOMAIN r)
        rows == Distinct([i \in 1..Len(own) |-> mainRow(own[i])])
    IN  [i \in 1..Len(rows) |->
            [id |-> rows[i].id,
             version |-> rows[i].version,
             updateDate |-> Date(rows[i].updateDate.v)]]

----------------------------------------------------------------------------
(* Builders, frames and results *)

NoRunner == -1          \* this.queryRunner is undefined
CallerRunner == 0       \* the query runner the caller gave the builder
CreatedRunner == 1      \* the query runner connection.createQueryRunner("slave") returns

NoValue == [k |-> "undefined"]
Rows(raw) == [k |-> "rows", raw |-> raw]
RawAndEntities(raw, entities) == [k |-> "rawAndEntities", raw |-> raw, entities |-> entities]
Entity(e) == [k |-> "entity", entity |-> e]
Entities(entities) == [k |-> "entities", entities |-> entities]
Count(n) == [k |-> "count", n |-> n]
ManyAndCount(entities, n) == [k |-> "manyAndCount", entities |-> entities, n |-> n]
ReadStream(state) == [k |-> "stream", state |-> state]
Query(sql) == [k |-> "query", sql |-> sql]

\* A frame: one async method in progress, with its locals.  ret / exc hold
\* what the awaited callee returned or threw.
Frame(fn, this) ==
    [fn |-> fn, this |-> this, pc |-> "start", queryRunner |-> NoRunner,
     transactionStartedByUs |-> FALSE, activeOnEntry |-> FALSE,
     error |-> "none", results |-> NoValue, ret |-> NoValue, exc |-> "none",
     savedQueryResultCacheOptions |-> Undefined, cacheError |-> FALSE, queryId |-> <<>>]

top == Len(frames)
Top == frames[top]
Running(fn, pc) == top > 0 /\ Top.fn = fn /\ Top.pc = pc
expressionMap(b) == builders[b].expressionMap
WithTop(f) == [frames EXCEPT ![top] = f]

\* await callee: the caller resumes at pc `resume` with ret or exc set.
Await(f, resume, callee) ==
    Append(WithTop([f EXCEPT !.pc = resume, !.ret = NoValue, !.exc = "none"]), callee)

\* return v / throw e from the method on top of the stack.
Return(v) ==
    /\ frames' = IF top = 1 THEN <<>>
                 ELSE [SubSeq(frames, 1, top - 1) EXCEPT ![top - 1].ret = v]
    /\ outcome' = IF top = 1 THEN [k |-> "returned", value |-> v, error |-> "none"] ELSE outcome

Throw(e) ==
    /\ frames' = IF top = 1 THEN <<>>
                 ELSE [SubSeq(frames, 1, top - 1) EXCEPT ![top - 1].exc = e]
    /\ outcome' = IF top = 1 THEN [k |-> "threw", value |-> NoValue, error |-> e] ELSE outcome

\* Some method on the stack has started a transaction and not finished yet.
InOwnedTransaction == \E i \in 1..top : frames[i].transactionStartedByUs

\* History: an error raised while a transaction started by the orchestrator
\* is in progress is remembered as the original error of the call.
Raised(h, e) ==
    IF InOwnedTransaction /\ h.failedInTransaction = "none"
    THEN [h EXCEPT !.failedInTransaction = e, !.errors = @ + 1]
    ELSE [h EXCEPT !.errors = @ + 1]

\* History of one loadRawResults execution: what it asked of the cache and
\* the driver, and what it returned.
NoLoad ==
    [state |-> "none", this |-> "qb", enabled |-> FALSE, lookup |-> <<>>, found |-> <<>>, expired |-> FALSE,
     lookupFailed |-> FALSE, queries |-> 0, queryFailed |-> FALSE, stores |-> <<>>,
     storeFailed |-> FALSE, previous |-> <<>>, returned |-> <<>>]

NoHistory ==
    [method |-> "none", createQueryRunner |-> 0, startTransaction |-> 0,
     commitTransaction |-> 0, rollbackTransaction |-> 0, query |-> 0, stream |-> 0,
     getFromCache |-> 0, storeInCache |-> 0, releaseCaller |-> 0, releaseCreated |-> 0,
     activeOnEntry |-> FALSE, failedInTransaction |-> "none", errors |-> 0,
     lockedDispatchWithoutTransaction |-> FALSE, firstEntity |-> <<>>,
     cacheErrors |-> 0, entry |-> <<>>, clock |-> 0, previous |-> <<>>,
     stored |-> [main |-> {}, count |-> {}],
     firstPhase |-> <<>>, secondPhase |-> <<>>, hydrated |-> FALSE,
     arguments |-> <<>>,
     load |-> NoLoad]

\* What the next call on the same builder remembers of a call: one that
\* returned after storing in the cache, without a cache error, every result it
\* looked up there leaves its method, its builder and its time; any other
\* leaves nothing.
Previous(h, result) ==
    IF /\ result.k = "returned" /\ h.cacheErrors = 0
       /\ h.getFromCache > 0 /\ h.storeInCache = h.getFromCache
    THEN <<[method |-> h.method, entry |-> h.entry, clock |-> h.clock]>>
    ELSE <<>>

\* History kept over the calls on the builder: the cache identifiers under
\* which getManyAndCount has stored a result of its main query and of its
\* count query.
Stored(h, em) ==
    IF h.method = "getManyAndCount" /\ em.cacheId # Undefined
    THEN IF em.query = "count" THEN [h.stored EXCEPT !.count = @ \cup {em.cacheId}]
         ELSE [h.stored EXCEPT !.main = @ \cup {em.cacheId}]
    ELSE h.stored

\* obtainQueryRunner: the builder's own runner, or a new one from the connection
obtainQueryRunner(b) ==
    IF builders[b].queryRunner # NoRunner THEN builders[b].queryRunner ELSE CreatedRunner

createdOwnQueryRunner_always(f) == f.queryRunner # NoRunner

\* queryRunner !== this.queryRunner: "means we created our own query runner"
createdOwnQueryRunner(f) == f.queryRunner # builders[f.this].queryRunner

----------------------------------------------------------------------------
(* loadRawResults *)

cacheLookupOptions(em, queryId) ==
    [identifier |-> em.cacheId, query |-> queryId, duration |-> cacheDurationOf(em)]

cacheStoreOptions_defaultDuration(em, queryId, records) ==
    [identifier |-> em.cacheId, query |-> queryId, time |-> clock,
     duration |-> DefaultDuration, result |-> JSONstringify(records)]

cacheStoreOptions(em, queryId, records) ==
    [identifier |-> em.cacheId, query |-> queryId, time |-> clock,
     duration |-> cacheDurationOf(em), result |-> JSONstringify(records)]

cacheHit_ignoringExpiry(saved) == saved # Undefined

\* savedQueryResultCacheOptions && !isExpired(savedQueryResultCacheOptions)
cacheHit(saved) == saved # Undefined /\ ~isExpired(saved[1])

shouldStore_regardlessOfCacheError(f) == cacheEnabled(expressionMap(f.this))

\* !cacheError && queryResultCache && (cache || alwaysEnabled)
shouldStore(f) == ~f.cacheError /\ cacheEnabled(expressionMap(f.this))

\* Compile, then look the query up in the cache when caching is enabled.
loadRawResults_start ==
    /\ Running("loadRawResults", "start")
    /\ LET f == Top
           em == expressionMap(f.this)
           compiled == getQuery(connection.driver, em)
           h0 == [hist EXCEPT !.load = [NoLoad EXCEPT !.state = "running", !.this = f.this,
                                                     !.enabled = cacheEnabled(em)],
                              !.secondPhase = IF f.this = "page"
                                              THEN Append(@, em.extraAppendedAndWhereCondition)
                                              ELSE @]
       IN  IF IsThrown(compiled) THEN
               /\ Throw(compiled.throws)
               /\ hist' = Raised([h0 EXCEPT !.load.state = "threw"], compiled.throws)
           ELSE IF cacheEnabled(em) THEN
               \E ok \in BOOLEAN :
                 LET options == cacheLookupOptions(em, compiled.sql)
                     saved == getFromCache(options)
                     h1 == [h0 EXCEPT !.getFromCache = @ + 1, !.load.lookup = <<options>>]
                 IN  IF ok /\ cacheHit(saved) THEN
                         /\ Return(Rows(JSONparse(saved[1].result)))
                         /\ hist' = [h1 EXCEPT !.load.found = saved, !.load.state = "returned",
                                               !.load.returned = <<JSONparse(saved[1].result)>>]
                     ELSE IF ok THEN
                         /\ frames' = WithTop([f EXCEPT !.pc = "query", !.queryId = compiled.sql,
                                                        !.savedQueryResultCacheOptions = saved])
                         /\ hist' = [h1 EXCEPT !.load.found = saved, !.load.expired = (saved # Undefined)]
                         /\ UNCHANGED outcome
                     ELSE IF ~cacheOptions.ignoreErrors THEN
                         /\ Throw("CacheGetError")
                         /\ hist' = Raised([h1 EXCEPT !.load.lookupFailed = TRUE, !.load.state = "threw",
                                                      !.cacheErrors = @ + 1],
                                           "CacheGetError")
                     ELSE
                         /\ frames' = WithTop([f EXCEPT !.pc = "query", !.queryId = compiled.sql,
                                                        !.cacheError = TRUE])
                         /\ hist' = [h1 EXCEPT !.load.lookupFailed = TRUE, !.cacheErrors = @ + 1]
                         /\ UNCHANGED outcome
           ELSE
               /\ frames' = WithTop([f EXCEPT !.pc = "query", !.queryId = compiled.sql])
               /\ hist' = h0
               /\ UNCHANGED outcome
    /\ UNCHANGED <<connection, metadata, db, builders, runners, cache, clock, streamOpen, calls>>

\* await queryRunner.query(sql, parameters, true)
loadRawResults_query ==
    /\ Running("loadRawResults", "query")
    /\ LET f == Top
           em == expressionMap(f.this)
           records == queryRecords(em)
           h1 == [hist EXCEPT !.query = @ + 1, !.load.queries = @ + 1,
                              !.lockedDispatchWithoutTransaction =
                                  @ \/ (em.lockMode \in PessimisticModes
                                        /\ ~runners[f.queryRunner].isTransactionActive)]
       IN  \E ok \in BOOLEAN :
             IF ~ok THEN
                 /\ Throw("QueryFailedError")
                 /\ hist' = Raised([h1 EXCEPT !.load.queryFailed = TRUE, !.load.state = "threw"],
                                   "QueryFailedError")
             ELSE IF shouldStore(f) THEN
                 /\ frames' = WithTop([f EXCEPT !.pc = "store", !.results = Rows(records)])
                 /\ hist' = h1
                 /\ UNCHANGED outcome
             ELSE
                 /\ Return(Rows(records))
                 /\ hist' = [h1 EXCEPT !.load.state = "returned", !.load.returned = <<records>>]
    /\ UNCHANGED <<connection, metadata, db, builders, runners, cache, clock, streamOpen, calls>>

\* await queryResultCache.storeInCache({...}, savedQueryResultCacheOptions, queryRunner)
loadRawResults_store ==
    /\ Running("loadRawResults", "store")
    /\ LET f == Top
           em == expressionMap(f.this)
           options == cacheStoreOptions(em, f.queryId, f.results.raw)
           h1 == [hist EXCEPT !.storeInCache = @ + 1, !.load.stores = Append(@, options),
                              !.load.previous = f.savedQueryResultCacheOptions]
       IN  \E ok \in BOOLEAN :
             IF ok THEN
                 /\ cache' = storeInCache(options)
                 /\ Return(f.results)
                 /\ hist' = [h1 EXCEPT !.load.state = "returned", !.load.returned = <<f.results.raw>>,
                                       !.stored = Stored(hist, em)]
             ELSE IF ~cacheOptions.ignoreErrors THEN
                 /\ Throw("CacheStoreError")
                 /\ hist' = Raised([h1 EXCEPT !.load.state = "threw", !.load.storeFailed = TRUE,
                                              !.cacheErrors = @ + 1],
                                   "CacheStoreError")
                 /\ UNCHANGED cache
             ELSE
                 /\ Return(f.results)
                 /\ hist' = [h1 EXCEPT !.load.state = "returned", !.load.returned = <<f.results.raw>>,
                                       !.load.storeFailed = TRUE, !.cacheErrors = @ + 1]
                 /\ UNCHANGED cache
    /\ UNCHANGED <<connection, metadata, db, builders, runners, clock, streamOpen, calls>>

loadRawResults == loadRawResults_start \/ loadRawResults_query \/ loadRawResults_store

----------------------------------------------------------------------------
(* The steps every execution entry point repeats *)

shouldStartTransaction_whileActive(f) ==
    expressionMap(f.this).useTransaction = TRUE

\* useTransaction === true && queryRunner.isTransactionActive === false
shouldStartTransaction(f) ==
    expressionMap(f.this).useTransaction = TRUE /\ runners[f.queryRunner].isTransactionActive = FALSE

\* const queryRunner = this.obtainQueryRunner(); let transactionStartedByUs = false;
obtainStep(fn, newBuilders) ==
    /\ builders' = newBuilders
    /\ LET f == Top
           queryRunner == obtainQueryRunner(f.this)
           created == builders[f.this].queryRunner = NoRunner
           active == IF created THEN FALSE ELSE runners[queryRunner].isTransactionActive
       IN  /\ frames' = WithTop([f EXCEPT !.queryRunner = queryRunner, !.activeOnEntry = active,
                                          !.transactionStartedByUs = FALSE, !.pc = "try"])
           /\ runners' = IF created
                         THEN [r \in DOMAIN runners \cup {queryRunner} |->
                                  IF r = queryRunner THEN [isTransactionActive |-> FALSE, released |-> 0]
                                  ELSE runners[r]]
                         ELSE runners
           /\ hist' = [hist EXCEPT !.createQueryRunner = @ + (IF created THEN 1 ELSE 0),
                                   !.activeOnEntry = IF f.this = "qb" THEN active ELSE @]
    /\ UNCHANGED <<connection, metadata, db, cache, clock, streamOpen, outcome, calls>>

\* if (useTransaction && !isTransactionActive) { await startTransaction(); transactionStartedByUs = true; }
startTransactionStep(fn, body) ==
    /\ Running(fn, "try")
    /\ LET f == Top
       IN  IF shouldStartTransaction(f) THEN
               \E ok \in BOOLEAN :
                 /\ runners' = IF ok THEN [runners EXCEPT ![f.queryRunner].isTransactionActive = TRUE]
                               ELSE runners
                 /\ frames' = WithTop(IF ok THEN [f EXCEPT !.transactionStartedByUs = TRUE, !.pc = body]
                                      ELSE [f EXCEPT !.error = "StartTransactionError", !.pc = "catch"])
                 /\ hist' = IF ok THEN [hist EXCEPT !.startTransaction = @ + 1]
                            ELSE Raised([hist EXCEPT !.startTransaction = @ + 1], "StartTransactionError")
           ELSE
               /\ frames' = WithTop([f EXCEPT !.pc = body])
               /\ UNCHANGED <<runners, hist>>
    /\ UNCHANGED <<connection, metadata, db, builders, cache, clock, streamOpen, outcome, calls>>

\* The awaited body returned: keep its value for the commit, or go to catch.
afterBodyStep(fn, at, results) ==
    /\ Running(fn, at)
    /\ frames' = WithTop(IF Top.exc # "none" THEN [Top EXCEPT !.error = Top.exc, !.pc = "catch"]
                         ELSE [Top EXCEPT !.results = results, !.pc = "commit"])
    /\ UNCHANGED <<connection, metadata, db, builders, runners, cache, clock, streamOpen,
                   outcome, calls, hist>>

\* if (transactionStartedByUs) await queryRunner.commitTransaction(); return results;
commitStep(fn, after) ==
    /\ Running(fn, "commit")
    /\ LET f == Top
       IN  IF f.transactionStartedByUs THEN
               \E ok \in BOOLEAN :
                 /\ runners' = IF ok THEN [runners EXCEPT ![f.queryRunner].isTransactionActive = FALSE]
                               ELSE runners
                 /\ frames' = WithTop(IF ok THEN [f EXCEPT !.pc = after]
                                      ELSE [f EXCEPT !.error = "CommitError", !.pc = "catch"])
                 /\ hist' = IF ok THEN [hist EXCEPT !.commitTransaction = @ + 1]
                            ELSE Raised([hist EXCEPT !.commitTransaction = @ + 1], "CommitError")
           ELSE
               /\ frames' = WithTop([f EXCEPT !.pc = after])
               /\ UNCHANGED <<runners, hist>>
    /\ UNCHANGED <<connection, metadata, db, builders, cache, clock, streamOpen, outcome, calls>>

\* catch (error) { if (transactionStartedByUs) { try { await rollbackTransaction() } catch {} } throw error }
catchStep(fn, after) ==
    /\ Running(fn, "catch")
    /\ LET f == Top
       IN  IF f.transactionStartedByUs THEN
               \E ok \in BOOLEAN :
                 /\ runners' = IF ok THEN [runners EXCEPT ![f.queryRunner].isTransactionActive = FALSE]
                               ELSE runners
                 /\ frames' = WithTop([f EXCEPT !.pc = after])
                 /\ hist' = [hist EXCEPT !.rollbackTransaction = @ + 1]
           ELSE
               /\ frames' = WithTop([f EXCEPT !.pc = after])
               /\ UNCHANGED <<runners, hist>>
    /\ UNCHANGED <<connection, metadata, db, builders, cache, clock, streamOpen, outcome, calls>>

\* queryRunner.release(), counted per kind of runner.
released(h, queryRunner) ==
    IF queryRunner = CallerRunner THEN [h EXCEPT !.releaseCaller = @ + 1]
    ELSE [h EXCEPT !.releaseCreated = @ + 1]

\* finally { if (queryRunner !== this.queryRunner) await queryRunner.release(); }
finallyStep(fn) ==
    /\ Running(fn, "finally")
    /\ LET f == Top
       IN  /\ IF createdOwnQueryRunner(f)
              THEN /\ runners' = [runners EXCEPT ![f.queryRunner].released = @ + 1]
                   /\ hist' = released(hist, f.queryRunner)
              ELSE UNCHANGED <<runners, hist>>
           /\ IF f.error = "none" THEN Return(f.results) ELSE Throw(f.error)
    /\ UNCHANGED <<connection, metadata, db, builders, cache, clock, streamOpen, calls>>

\* await callee; return convert(result): a method that only forwards.
forwardStep(fn, at, value) ==
    /\ Running(fn, at)
    /\ IF Top.exc # "none" THEN Throw(Top.exc) ELSE Return(value)
    /\ UNCHANGED <<connection, metadata, db, builders, runners, cache, clock, streamOpen, calls, hist>>

\* A frame of a protected method that runs on the caller's query runner.
OnRunner(fn, this, queryRunner) == [Frame(fn, this) EXCEPT !.queryRunner = queryRunner]

awaitStep(fn, at, resume, callee, newBuilders) ==
    /\ Running(fn, at)
    /\ frames' = Await(Top, resume, callee)
    /\ builders' = newBuilders
    /\ UNCHANGED <<connection, metadata, db, runners, cache, clock, streamOpen, outcome, calls, hist>>

\* if (this.expressionMap.lockMode === "optimistic") throw new OptimisticLockCanNotBeUsedError();
\* then obtain the query runner.
guardedObtainStep(fn, newBuilders) ==
    /\ Running(fn, "start")
    /\ IF expressionMap(Top.this).lockMode = "optimistic" THEN
           /\ Throw("OptimisticLockCanNotBeUsedError")
           /\ hist' = Raised(hist, "OptimisticLockCanNotBeUsedError")
           /\ UNCHANGED <<connection, metadata, db, builders, runners, cache, clock, streamOpen, calls>>
       ELSE obtainStep(fn, newBuilders)

queryEntity(b, value) == [builders EXCEPT ![b].expressionMap.queryEntity = value]

----------------------------------------------------------------------------
(* getRawOne, getRawMany *)

getRawOne_start ==
    awaitStep("getRawOne", "start", "after", Frame("getRawMany", Top.this), builders)

getRawOne_after ==
    forwardStep("getRawOne", "after",
                IF Len(Top.ret.raw) > 0 THEN [k |-> "row", row |-> Top.ret.raw[1]] ELSE NoValue)

getRawOne == getRawOne_start \/ getRawOne_after

getRawMany_start == guardedObtainStep("getRawMany", queryEntity(Top.this, FALSE))

getRawMany_try == startTransactionStep("getRawMany", "body")

getRawMany_body ==
    awaitStep("getRawMany", "body", "afterLoad",
              OnRunner("loadRawResults", Top.this, Top.queryRunner), builders)

getRawMany_afterLoad == afterBodyStep("getRawMany", "afterLoad", Top.ret)

getRawMany_commit == commitStep("getRawMany", "finally")

getRawMany_catch == catchStep("getRawMany", "finally")

getRawMany_finally == finallyStep("getRawMany")

getRawMany ==
    \/ getRawMany_start \/ getRawMany_try \/ getRawMany_body \/ getRawMany_afterLoad
    \/ getRawMany_commit \/ getRawMany_catch \/ getRawMany_finally

----------------------------------------------------------------------------
(* getCount, executeCountQuery *)

\* The values a caller passes where a boolean, a number or a string is
\* expected.
BooleanArg(b) == [t |-> "boolean", b |-> b, n |-> 0, s |-> <<>>]
NumberArg(n) == [t |-> "number", b |-> FALSE, n |-> n, s |-> <<>>]
StringArg(str) == [t |-> "string", b |-> FALSE, n |-> 0, s |-> str]
UndefinedArg == [t |-> "undefined", b |-> FALSE, n |-> 0, s |-> <<>>]

\* The result of a mutator: the expression map it leaves and the error it
\* threw, if any.
Done(em) == [em |-> em, error |-> "none"]
Failed(em, error) == [em |-> em, error |-> error]

\* The number that is not a number.
NaN == -1

isNaN(x) == x = NaN

\* Number(str) of the strings the callers pass.
Number(str) ==
    CASE str = "0" -> 0
      [] str = "1" -> 1
      [] str = "2" -> 2
      [] OTHER -> NaN

normalizeNumber(num) ==
    CASE num.t = "number" -> Some(num.n)
      [] num.t = "undefined" -> Undefined
      [] OTHER -> Some(Number(num.s[1]))

\* limit(limit), offset(offset), take(take), skip(skip): the slot is assigned,
\* then checked.
limitSetter(em, limit) ==
    LET assigned == [em EXCEPT !.limit = normalizeNumber(limit)]
    IN  IF assigned.limit # Undefined /\ isNaN(assigned.limit[1])
        THEN Failed(assigned, "TypeORMError") ELSE Done(assigned)

offsetSetter(em, offset) ==
    LET assigned == [em EXCEPT !.offset = normalizeNumber(offset)]
    IN  IF assigned.offset # Undefined /\ isNaN(assigned.offset[1])
        THEN Failed(assigned, "TypeORMError") ELSE Done(assigned)

takeSetter(em, take) ==
    LET assigned == [em EXCEPT !.take = normalizeNumber(take)]
    IN  IF assigned.take # Undefined /\ isNaN(assigned.take[1])
        THEN Failed(assigned, "TypeORMError") ELSE Done(assigned)

skipSetter(em, skip) ==
    LET assigned == [em EXCEPT !.skip = normalizeNumber(skip)]
    IN  IF assigned.skip # Undefined /\ isNaN(assigned.skip[1])
        THEN Failed(assigned, "TypeORMError") ELSE Done(assigned)

\* { [sort]: order } or { [sort]: { order, nulls } }
orderByEntry(sort, order, nulls) ==
    IF nulls # Undefined /\ nulls[1] # ""
    THEN [col |-> sort, order |-> order, nulls |-> nulls[1]]
    ELSE [col |-> sort, order |-> order]

validOrder(order, nulls) ==
    /\ order \in {"ASC", "DESC"}
    /\ nulls # Undefined => nulls[1] \in {"NULLS FIRST", "NULLS LAST"}

\* orderBy(sort, order = "ASC", nulls): sort is undefined or a column.
orderBySetter(em, sort, order, nulls) ==
    IF ~validOrder(order, nulls) THEN Failed(em, "TypeORMError")
    ELSE IF sort # Undefined /\ sort[1] # ""
    THEN Done([em EXCEPT !.orderBys = <<orderByEntry(sort[1], order, nulls)>>])
    ELSE Done([em EXCEPT !.orderBys = <<>>])

\* this.expressionMap.orderBys[sort] = ...: the key keeps its place when it is
\* there already.
addOrderBySetter(em, sort, order, nulls) ==
    IF ~validOrder(order, nulls) THEN Failed(em, "TypeORMError")
    ELSE IF \E i \in 1..Len(em.orderBys) : em.orderBys[i].col = sort
    THEN Done([em EXCEPT !.orderBys =
                  [i \in 1..Len(em.orderBys) |->
                      IF em.orderBys[i].col = sort THEN orderByEntry(sort, order, nulls)
                      ELSE em.orderBys[i]]])
    ELSE Done([em EXCEPT !.orderBys = Append(@, orderByEntry(sort, order, nulls))])

\* groupBy(groupBy)
groupBySetter(em, groupBy) ==
    IF groupBy # Undefined /\ groupBy[1] # ""
    THEN [em EXCEPT !.groupBys = <<groupBy[1]>>]
    ELSE [em EXCEPT !.groupBys = <<>>]

\* setOption(option)
setOption(em, option) == [em EXCEPT !.options = Append(@, option)]

\* createGroupByExpression(), as tokens.
createGroupByExpression(em) ==
    IF Len(em.groupBys) = 0 THEN <<>>
    ELSE <<KW("GROUP BY")>> \o [i \in 1..Len(em.groupBys) |-> KW(em.groupBys[i])]

\* createOrderByExpression(), as tokens: the column and its order.
createOrderByExpression(em) ==
    IF Len(em.orderBys) > 0
    THEN <<KW("ORDER BY")>>
         \o [i \in 1..Len(em.orderBys) |-> KW(em.orderBys[i].col \o " " \o em.orderBys[i].order)]
    ELSE <<>>

\* QueryBuilder.clone(): a new builder on the same connection and query runner
\* with a copy of the expression map.
clone(b) == builders[b]

\* this.clone().orderBy().groupBy().offset(undefined).limit(undefined)
\*     .skip(undefined).take(undefined).select(countSql, "cnt").setOption(...)
countQueryBuilder_keepingGroupBy(b) ==
    LET ordered == orderBySetter(clone(b).expressionMap, Undefined, "ASC", Undefined).em
        offset == offsetSetter(ordered, UndefinedArg).em
        limit == limitSetter(offset, UndefinedArg).em
        skip == skipSetter(limit, UndefinedArg).em
        take == takeSetter(skip, UndefinedArg).em
        selected == [take EXCEPT !.selects = <<[selection |-> "countSql", aliasName |-> Some("cnt")]>>,
                                 !.query = "count"]
    IN  [clone(b) EXCEPT !.expressionMap = setOption(selected, "disable-global-order")]

countQueryBuilder(b) ==
    LET ordered == orderBySetter(clone(b).expressionMap, Undefined, "ASC", Undefined).em
        grouped == groupBySetter(ordered, Undefined)
        offset == offsetSetter(grouped, UndefinedArg).em
        limit == limitSetter(offset, UndefinedArg).em
        skip == skipSetter(limit, UndefinedArg).em
        take == takeSetter(skip, UndefinedArg).em
        selected == [take EXCEPT !.selects = <<[selection |-> "countSql", aliasName |-> Some("cnt")]>>,
                                 !.query = "count"]
    IN  [clone(b) EXCEPT !.expressionMap = setOption(selected, "disable-global-order")]

executeCountQuery_start ==
    awaitStep("executeCountQuery", "start", "after",
              OnRunner("loadRawResults", "count", Top.queryRunner),
              [builders EXCEPT !["count"] = countQueryBuilder(Top.this)])

\* if (!results || !results[0] || !results[0]["cnt"]) return 0; return parseInt(results[0]["cnt"]);
countOf(results) ==
    IF Len(results) = 0 THEN 0
    ELSE IF "cnt" \notin DOMAIN results[1] THEN 0
    ELSE results[1].cnt.v

executeCountQuery_after ==
    forwardStep("executeCountQuery", "after", Count(countOf(Top.ret.raw)))

executeCountQuery == executeCountQuery_start \/ executeCountQuery_after

getCount_start == guardedObtainStep("getCount", builders)

getCount_try == startTransactionStep("getCount", "body")

getCount_body ==
    awaitStep("getCount", "body", "afterCount",
              OnRunner("executeCountQuery", Top.this, Top.queryRunner),
              queryEntity(Top.this, FALSE))

getCount_afterCount == afterBodyStep("getCount", "afterCount", Top.ret)

getCount_commit == commitStep("getCount", "finally")

getCount_catch == catchStep("getCount", "finally")

getCount_finally == finallyStep("getCount")

getCount ==
    \/ getCount_start \/ getCount_try \/ getCount_body \/ getCount_afterCount
    \/ getCount_commit \/ getCount_catch \/ getCount_finally

----------------------------------------------------------------------------
(* executeEntitiesAndRawResults, getRawAndEntities *)

\* A new builder's expression map (QueryExpressionMap's field initialisers).
NewExpressionMap ==
    [lockMode |-> NoLock, lockVersion |-> NoVersion, lockTables |-> Undefined,
     useTransaction |-> FALSE, queryEntity |-> FALSE,
     cache |-> FALSE, cacheId |-> Undefined, cacheDuration |-> Undefined,
     limit |-> Undefined, offset |-> Undefined, skip |-> Undefined, take |-> Undefined,
     joins |-> 0, orderBys |-> <<>>, selects |-> <<>>, from |-> <<>>,
     wheres |-> <<>>, havings |-> <<>>,
     query |-> "main", extraAppendedAndWhereCondition |-> <<>>,
     groupBys |-> <<>>, options |-> <<>>,
     aliases |-> <<>>, mainAlias |-> Undefined, joinAttributes |-> <<>>,
     withDeleted |-> FALSE, relationIdAttributes |-> <<>>,
     relationCountAttributes |-> <<>>]

\* cache(enabledOrMillisecondsOrId, maybeMilliseconds)
cacheSetter(em, enabledOrMillisecondsOrId, maybeMilliseconds) ==
    LET em1 == CASE enabledOrMillisecondsOrId.t = "boolean" ->
                        [em EXCEPT !.cache = enabledOrMillisecondsOrId.b]
                 [] enabledOrMillisecondsOrId.t = "number" ->
                        [em EXCEPT !.cache = TRUE, !.cacheDuration = Some(enabledOrMillisecondsOrId.n)]
                 [] enabledOrMillisecondsOrId.t = "string" ->
                        [em EXCEPT !.cache = TRUE, !.cacheId = enabledOrMillisecondsOrId.s]
                 [] OTHER -> em
    IN  IF Truthy(maybeMilliseconds) THEN [em1 EXCEPT !.cacheDuration = maybeMilliseconds] ELSE em1

\* (skip || take) && joinAttributes.length > 0
twoPhasePagination(em) == (Truthy(em.skip) \/ Truthy(em.take)) /\ em.joins > 0

\* new SelectQueryBuilder(connection, queryRunner).select("DISTINCT ...")...
\*   .offset(skip).limit(take).orderBy(orderBys).cache(cache ? cache : cacheId, cacheDuration)
\* createOrderByCombinedWithSelectExpression("distinctAlias"): the order
\* columns as a select list, and the ordering over them.
createOrderByCombinedWithSelectExpression(em) ==
    [selects |-> [i \in 1..Len(em.orderBys) |-> [selection |-> em.orderBys[i].col, aliasName |-> Undefined]],
     orderBys |-> em.orderBys]

\* if (!orderBys[columnAlias]) orderBys[columnAlias] = "ASC", for the primary column
withPrimaryColumnOrder(orderBys) ==
    IF \E i \in 1..Len(orderBys) : orderBys[i].col = "id" THEN orderBys
    ELSE Append(orderBys, [col |-> "id", order |-> "ASC"])

idsQueryBuilder_withoutRunner(em, queryRunner) ==
    [expressionMap |->
        cacheSetter([NewExpressionMap EXCEPT
                        !.query = "ids",
                        !.selects = createOrderByCombinedWithSelectExpression(em).selects,
                        !.from = <<[em EXCEPT !.orderBys = <<>>]>>,
                        !.offset = em.skip, !.limit = em.take,
                        !.orderBys = withPrimaryColumnOrder(
                                         createOrderByCombinedWithSelectExpression(em).orderBys)],
                    IF em.cache THEN BooleanArg(em.cache)
                    ELSE IF em.cacheId = Undefined THEN UndefinedArg ELSE StringArg(em.cacheId),
                    em.cacheDuration),
     queryRunner |-> NoRunner]

idsQueryBuilder(em, queryRunner) ==
    [expressionMap |->
        cacheSetter([NewExpressionMap EXCEPT
                        !.query = "ids",
                        !.selects = createOrderByCombinedWithSelectExpression(em).selects,
                        !.from = <<[em EXCEPT !.orderBys = <<>>]>>,
                        !.offset = em.skip, !.limit = em.take,
                        !.orderBys = withPrimaryColumnOrder(
                                         createOrderByCombinedWithSelectExpression(em).orderBys)],
                    IF em.cache THEN BooleanArg(em.cache)
                    ELSE IF em.cacheId = Undefined THEN UndefinedArg ELSE StringArg(em.cacheId),
                    em.cacheDuration),
     queryRunner |-> queryRunner]

\* result[alias]: the id of a row of the window query (a row without that
\* column gives undefined, which matches no row).
idOf(result) == IF "ids" \in DOMAIN result THEN result.ids.v ELSE -1

pageQueryBuilder_unrestricted(b, rawResults) == clone(b)

\* this.clone().mergeExpressionMap({ extraAppendedAndWhereCondition: condition })
pageQueryBuilder(b, rawResults) ==
    [clone(b) EXCEPT !.expressionMap.extraAppendedAndWhereCondition =
                         [i \in 1..Len(rawResults) |-> idOf(rawResults[i])]]

noVersionOrUpdateDateColumn_versionOnly(em) ==
    em.lockMode = "optimistic" /\ ~metadata.versionColumn /\ metadata.updateDateColumn

\* lockMode === "optimistic" && !metadata.versionColumn && !metadata.updateDateColumn
noVersionOrUpdateDateColumn(em) ==
    em.lockMode = "optimistic" /\ ~metadata.versionColumn /\ ~metadata.updateDateColumn

executeEntitiesAndRawResults_start ==
    /\ Running("executeEntitiesAndRawResults", "start")
    /\ LET f == Top
           em == expressionMap(f.this)
       IN  IF em.lockMode \in PessimisticModes /\ ~runners[f.queryRunner].isTransactionActive THEN
               /\ Throw("PessimisticLockTransactionRequiredError")
               /\ hist' = Raised(hist, "PessimisticLockTransactionRequiredError")
               /\ UNCHANGED builders
           ELSE IF noVersionOrUpdateDateColumn(em) THEN
               /\ Throw("NoVersionOrUpdateDateColumnError")
               /\ hist' = Raised(hist, "NoVersionOrUpdateDateColumnError")
               /\ UNCHANGED builders
           ELSE IF twoPhasePagination(em) THEN
               /\ builders' = [builders EXCEPT !["ids"] = idsQueryBuilder(em, f.queryRunner)]
               /\ frames' = Await(f, "afterIds", Frame("getRawMany", "ids"))
               /\ UNCHANGED <<hist, outcome>>
           ELSE
               /\ frames' = Await(f, "afterLoad", OnRunner("loadRawResults", f.this, f.queryRunner))
               /\ UNCHANGED <<hist, outcome, builders>>
    /\ UNCHANGED <<connection, metadata, db, runners, cache, clock, streamOpen, calls>>

\* The id window came back: load the page restricted to those ids, or stop.
executeEntitiesAndRawResults_afterIds ==
    /\ Running("executeEntitiesAndRawResults", "afterIds")
    /\ LET f == Top
       IN  IF f.exc # "none" THEN
               Throw(f.exc) /\ UNCHANGED <<builders, hist>>
           ELSE IF Len(f.ret.raw) > 0 THEN
               /\ builders' = [builders EXCEPT !["page"] = pageQueryBuilder(f.this, f.ret.raw)]
               /\ frames' = Await(f, "afterLoad", OnRunner("loadRawResults", "page", f.queryRunner))
               /\ hist' = [hist EXCEPT !.firstPhase = <<f.ret.raw>>]
               /\ UNCHANGED outcome
           ELSE
               /\ Return(RawAndEntities(f.ret.raw, <<>>))
               /\ hist' = [hist EXCEPT !.firstPhase = <<f.ret.raw>>]
               /\ UNCHANGED builders
    /\ UNCHANGED <<connection, metadata, db, runners, cache, clock, streamOpen, calls>>

\* if (rawResults.length > 0) { relation loaders, transform, "after load" broadcast }
executeEntitiesAndRawResults_afterLoad ==
    /\ Running("executeEntitiesAndRawResults", "afterLoad")
    /\ LET f == Top
       IN  IF f.exc # "none" THEN
               Throw(f.exc) /\ UNCHANGED hist
           ELSE IF Len(f.ret.raw) > 0 THEN
               \E ok \in BOOLEAN :
                  IF ok THEN /\ Return(RawAndEntities(f.ret.raw, transform(f.ret.raw)))
                             /\ hist' = [hist EXCEPT !.hydrated = TRUE]
                  ELSE /\ Throw("HydrationError")
                       /\ hist' = Raised([hist EXCEPT !.hydrated = TRUE], "HydrationError")
           ELSE
               Return(RawAndEntities(f.ret.raw, <<>>)) /\ UNCHANGED hist
    /\ UNCHANGED <<connection, metadata, db, builders, runners, cache, clock, streamOpen, calls>>

executeEntitiesAndRawResults ==
    \/ executeEntitiesAndRawResults_start
    \/ executeEntitiesAndRawResults_afterIds
    \/ executeEntitiesAndRawResults_afterLoad

getRawAndEntities_start ==
    Running("getRawAndEntities", "start") /\ obtainStep("getRawAndEntities", builders)

getRawAndEntities_try == startTransactionStep("getRawAndEntities", "body")

getRawAndEntities_body ==
    awaitStep("getRawAndEntities", "body", "afterExecute",
              OnRunner("executeEntitiesAndRawResults", Top.this, Top.queryRunner),
              queryEntity(Top.this, TRUE))

getRawAndEntities_afterExecute == afterBodyStep("getRawAndEntities", "afterExecute", Top.ret)

getRawAndEntities_commit == commitStep("getRawAndEntities", "finally")

getRawAndEntities_catch == catchStep("getRawAndEntities", "finally")

getRawAndEntities_finally == finallyStep("getRawAndEntities")

getRawAndEntities ==
    \/ getRawAndEntities_start \/ getRawAndEntities_try \/ getRawAndEntities_body
    \/ getRawAndEntities_afterExecute \/ getRawAndEntities_commit
    \/ getRawAndEntities_catch \/ getRawAndEntities_finally

----------------------------------------------------------------------------
(* getOne, getOneOrFail, getMany *)

getOne_start ==
    awaitStep("getOne", "start", "after", Frame("getRawAndEntities", Top.this), builders)

\* JavaScript truthiness of expressionMap.lockVersion: undefined and 0 are falsy.
lockVersionSet(lockVersion) ==
    lockVersion.t = "date" \/ (lockVersion.t = "number" /\ lockVersion.v # 0)

\* The optimistic check of getOne on the first entity: the error it throws, or "none".
optimisticLockCheck(em, result) ==
    IF em.lockMode = "optimistic" /\ lockVersionSet(em.lockVersion) THEN
        IF em.lockVersion.t = "date" THEN
            IF ~metadata.updateDateColumn THEN "TypeError"
            ELSE IF result.updateDate.v # em.lockVersion.v THEN "OptimisticLockVersionMismatchError"
            ELSE "none"
        ELSE
            IF ~metadata.versionColumn THEN "TypeError"
            ELSE IF result.version # em.lockVersion THEN "OptimisticLockVersionMismatchError"
            ELSE "none"
    ELSE "none"

getOne_after ==
    /\ Running("getOne", "after")
    /\ LET f == Top
           em == expressionMap(f.this)
       IN  IF f.exc # "none" THEN
               Throw(f.exc) /\ UNCHANGED hist
           ELSE IF Len(f.ret.entities) = 0 THEN
               Return(NoValue) /\ UNCHANGED hist
           ELSE LET result == f.ret.entities[1]
                    error == optimisticLockCheck(em, result)
                    h1 == [hist EXCEPT !.firstEntity = <<result>>]
                IN  IF error # "none" THEN Throw(error) /\ hist' = Raised(h1, error)
                    ELSE Return(Entity(result)) /\ hist' = h1
    /\ UNCHANGED <<connection, metadata, db, builders, runners, cache, clock, streamOpen, calls>>

getOne == getOne_start \/ getOne_after

getOneOrFail_start ==
    awaitStep("getOneOrFail", "start", "after", Frame("getOne", Top.this), builders)

getOneOrFail_after ==
    /\ Running("getOneOrFail", "after")
    /\ IF Top.exc # "none" THEN Throw(Top.exc) /\ UNCHANGED hist
       ELSE IF Top.ret = NoValue
           THEN Throw("EntityNotFoundError") /\ hist' = Raised(hist, "EntityNotFoundError")
       ELSE Return(Top.ret) /\ UNCHANGED hist
    /\ UNCHANGED <<connection, metadata, db, builders, runners, cache, clock, streamOpen, calls>>

getOneOrFail == getOneOrFail_start \/ getOneOrFail_after

getMany_start ==
    /\ Running("getMany", "start")
    /\ IF expressionMap(Top.this).lockMode = "optimistic" THEN
           /\ Throw("OptimisticLockCanNotBeUsedError")
           /\ hist' = Raised(hist, "OptimisticLockCanNotBeUsedError")
       ELSE
           /\ frames' = Await(Top, "after", Frame("getRawAndEntities", Top.this))
           /\ UNCHANGED <<hist, outcome>>
    /\ UNCHANGED <<connection, metadata, db, builders, runners, cache, clock, streamOpen, calls>>

getMany_after == forwardStep("getMany", "after", Entities(Top.ret.entities))

getMany == getMany_start \/ getMany_after

----------------------------------------------------------------------------
(* getManyAndCount *)

getManyAndCount_start == guardedObtainStep("getManyAndCount", builders)

getManyAndCount_try == startTransactionStep("getManyAndCount", "body")

getManyAndCount_body ==
    awaitStep("getManyAndCount", "body", "afterEntities",
              OnRunner("executeEntitiesAndRawResults", Top.this, Top.queryRunner),
              queryEntity(Top.this, TRUE))

\* this.expressionMap.cacheId = (cacheId) ? `${cacheId}-count` : cacheId;
countCacheId(cacheId) == IF cacheId # Undefined THEN Append(cacheId, "-count") ELSE cacheId

getManyAndCount_afterEntities ==
    /\ Running("getManyAndCount", "afterEntities")
    /\ LET f == Top
           em == expressionMap(f.this)
       IN  IF f.exc # "none" THEN
               /\ frames' = WithTop([f EXCEPT !.error = f.exc, !.pc = "catch"])
               /\ UNCHANGED builders
           ELSE
               /\ builders' = [builders EXCEPT ![f.this].expressionMap.queryEntity = FALSE,
                                               ![f.this].expressionMap.cacheId = countCacheId(em.cacheId)]
               /\ frames' = Await([f EXCEPT !.results = f.ret], "afterCount",
                                  OnRunner("executeCountQuery", f.this, f.queryRunner))
    /\ UNCHANGED <<connection, metadata, db, runners, cache, clock, streamOpen, outcome, calls, hist>>

getManyAndCount_afterCount ==
    afterBodyStep("getManyAndCount", "afterCount", ManyAndCount(Top.results.entities, Top.ret.n))

getManyAndCount_commit == commitStep("getManyAndCount", "finally")

getManyAndCount_catch == catchStep("getManyAndCount", "finally")

getManyAndCount_finally == finallyStep("getManyAndCount")

getManyAndCount ==
    \/ getManyAndCount_start \/ getManyAndCount_try \/ getManyAndCount_body
    \/ getManyAndCount_afterEntities \/ getManyAndCount_afterCount
    \/ getManyAndCount_commit \/ getManyAndCount_catch \/ getManyAndCount_finally

----------------------------------------------------------------------------
(* stream *)

NoStream == [open |-> FALSE, queryRunner |-> NoRunner, this |-> "qb"]

\* this.expressionMap.queryEntity = false; getQueryAndParameters(); obtainQueryRunner()
stream_start ==
    /\ Running("stream", "start")
    /\ LET compiled == getQuery(connection.driver,
                                [expressionMap(Top.this) EXCEPT !.queryEntity = FALSE])
       IN  IF IsThrown(compiled) THEN
               /\ Throw(compiled.throws)
               /\ hist' = Raised(hist, compiled.throws)
               /\ builders' = queryEntity(Top.this, FALSE)
               /\ UNCHANGED <<connection, metadata, db, runners, cache, clock, streamOpen, calls>>
           ELSE obtainStep("stream", queryEntity(Top.this, FALSE))

stream_try == startTransactionStep("stream", "body")

\* const results = queryRunner.stream(sql, parameters, releaseFn, releaseFn);
\* The call is not awaited: the driver may throw at once, or hand back a
\* promise that resolves to the stream or rejects.
stream_body ==
    /\ Running("stream", "body")
    /\ LET f == Top
           em == expressionMap(f.this)
           h1 == [hist EXCEPT !.stream = @ + 1,
                              !.lockedDispatchWithoutTransaction =
                                  @ \/ (em.lockMode \in PessimisticModes
                                        /\ ~runners[f.queryRunner].isTransactionActive)]
       IN  \E result \in {"open", "rejected", "throws"} :
              IF result = "throws" THEN
                  /\ frames' = WithTop([f EXCEPT !.error = "StreamError", !.pc = "catch"])
                  /\ hist' = Raised(h1, "StreamError")
                  /\ UNCHANGED streamOpen
              ELSE IF result = "rejected" THEN
                  /\ frames' = WithTop([f EXCEPT !.results = ReadStream("rejected"), !.pc = "commit"])
                  /\ hist' = Raised(h1, "StreamError")
                  /\ UNCHANGED streamOpen
              ELSE
                  /\ frames' = WithTop([f EXCEPT !.results = ReadStream("open"), !.pc = "commit"])
                  /\ hist' = h1
                  /\ streamOpen' = [open |-> TRUE, queryRunner |-> f.queryRunner, this |-> f.this]
    /\ UNCHANGED <<connection, metadata, db, builders, runners, cache, clock, outcome, calls>>

stream_commit == commitStep("stream", "return")

stream_catch == catchStep("stream", "return")

\* return results (the promise of the driver), or rethrow from the catch block.
stream_return ==
    /\ Running("stream", "return")
    /\ IF Top.error # "none" THEN Throw(Top.error)
       ELSE IF Top.results.state = "rejected" THEN Throw("StreamError")
       ELSE Return(Top.results)
    /\ UNCHANGED <<connection, metadata, db, builders, runners, cache, clock, streamOpen, calls, hist>>

\* The driver ends the stream (or reports an error on it) and invokes releaseFn.
releaseFn ==
    /\ streamOpen.open
    /\ streamOpen' = NoStream
    /\ IF streamOpen.queryRunner # builders[streamOpen.this].queryRunner
       THEN /\ runners' = [runners EXCEPT ![streamOpen.queryRunner].released = @ + 1]
            /\ hist' = released(hist, streamOpen.queryRunner)
       ELSE UNCHANGED <<runners, hist>>
    /\ UNCHANGED <<connection, metadata, db, builders, frames, cache, clock, outcome, calls>>

stream ==
    \/ stream_start \/ stream_try \/ stream_body \/ stream_commit \/ stream_catch
    \/ stream_return \/ releaseFn

----------------------------------------------------------------------------
(* The caller *)

\* The caller invokes an execution method on the builder, once the previous
\* call has settled and its stream, if any, has ended.  The query runners the
\* previous call created are out of reach of the new one.
Invoke ==
    /\ frames = <<>>
    /\ ~streamOpen.open
    /\ calls.made < calls.budget
    /\ runners' = [r \in {CallerRunner} |-> runners[r]]
    /\ \E method \in Methods :
          /\ frames' = <<Frame(method, "qb")>>
          /\ hist' = [NoHistory EXCEPT !.method = method,
                                       !.entry = <<builders["qb"].expressionMap>>,
                                       !.clock = clock,
                                       !.previous = Previous(hist, outcome),
                                       !.stored = hist.stored]
    /\ calls' = [calls EXCEPT !.made = @ + 1]
    /\ outcome' = [k |-> "pending", value |-> NoValue, error |-> "none"]
    /\ UNCHANGED <<connection, metadata, db, builders, cache, clock, streamOpen>>

\* Time passes between two calls.
Tick ==
    /\ frames = <<>>
    /\ calls.made > 0
    /\ calls.made < calls.budget
    /\ clock < MaxTicks * TickMs
    /\ clock' = clock + TickMs
    /\ UNCHANGED <<connection, metadata, db, builders, frames, runners, cache, streamOpen,
                   outcome, calls, hist>>

----------------------------------------------------------------------------
(* Initial states: a configured builder on a connection *)

NoCacheOptions == [t |-> "undefined", alwaysEnabled |-> FALSE, ignoreErrors |-> FALSE, duration |-> Undefined]

\* connection.options.cache: absent, true, or an options object.
CacheOptions ==
    {NoCacheOptions, [NoCacheOptions EXCEPT !.t = "true"]}
    \cup [t : {"object"}, alwaysEnabled : BOOLEAN, ignoreErrors : BOOLEAN,
          duration : {Undefined}]
    \cup {[t |-> "object", alwaysEnabled |-> FALSE, ignoreErrors |-> FALSE, duration |-> Some(2 * TickMs)]}

Connection(driver, cacheOpts) ==
    [driver |-> driver, options |-> [cache |-> cacheOpts],
     queryResultCache |-> (cacheOpts.t # "undefined")]

Row(id, version, updateDate) ==
    [id |-> Num(id), version |-> Num(version), updateDate |-> Date(updateDate), children |-> <<>>]

\* Database contents: up to MaxRows rows with ids 1, 2, ...; every row has the
\* same (version, update date).
Databases ==
    {<<>>} \cup {[i \in 1..n |-> Row(i, v, v)] : n \in 1..MaxRows, v \in 0..MaxVersion}

LockVersions == {NoVersion} \cup {Num(v) : v \in 0..MaxVersion} \cup {Date(v) : v \in 0..MaxVersion}

\* setLock(lockMode, lockVersion): a version accompanies the optimistic mode only.
LockSettings ==
    {[lockMode |-> m, lockVersion |-> NoVersion] : m \in LockModes \ {"optimistic"}}
    \cup {[lockMode |-> "optimistic", lockVersion |-> v] : v \in LockVersions}

\* The builder's own query runner, whether a transaction is active on it, and useTransaction().
TransactionSettings ==
    {[queryRunner |-> NoRunner, active |-> FALSE, useTransaction |-> u] : u \in BOOLEAN}
    \cup [queryRunner : {CallerRunner}, active : BOOLEAN, useTransaction : BOOLEAN]

\* skip / take / joins: no pagination, flat pagination, two-phase pagination.
PageSettings ==
    {[skip |-> Undefined, take |-> Undefined, joins |-> 0],
     [skip |-> Undefined, take |-> Some(1), joins |-> 0],
     [skip |-> Undefined, take |-> Some(1), joins |-> 1],
     [skip |-> Some(1), take |-> Undefined, joins |-> 1]}

\* cache(...) calls made on the builder.
CacheSettings ==
    {NewExpressionMap,
     cacheSetter(NewExpressionMap, BooleanArg(TRUE), Undefined),
     cacheSetter(NewExpressionMap, NumberArg(2 * TickMs), Undefined),
     cacheSetter(NewExpressionMap, StringArg(<<"id">>), Undefined)}

Builder(lock, tx, page, cached) ==
    [expressionMap |-> [cached EXCEPT !.lockMode = lock.lockMode, !.lockVersion = lock.lockVersion,
                                      !.useTransaction = tx.useTransaction,
                                      !.skip = page.skip, !.take = page.take, !.joins = page.joins],
     queryRunner |-> tx.queryRunner]

Scenario(conn, meta, database, lock, tx, page, cached, budget) ==
    [connection |-> conn, metadata |-> meta, db |-> database,
     builder |-> Builder(lock, tx, page, cached), active |-> tx.active, budget |-> budget]

BothColumns == [versionColumn |-> TRUE, updateDateColumn |-> TRUE]

\* Pessimistic and no locking, on a driver that compiles every lock mode and
\* on one that compiles none, with every transaction setting.
LockScenarios ==
    {Scenario(Connection(driver, NoCacheOptions), BothColumns, database, lock, tx, page,
              NewExpressionMap, SingleCall) :
        driver \in {"postgres", "sqlite"},
        database \in {<<>>, <<Row(1, 1, 1)>>},
        lock \in {l \in LockSettings : l.lockMode # "optimistic"},
        tx \in TransactionSettings,
        page \in {p \in PageSettings : p.skip = Undefined}}

\* Optimistic locking, with every lock version, schema and row version.
OptimisticScenarios ==
    {Scenario(Connection("postgres", NoCacheOptions), meta, database, lock, tx,
              [skip |-> Undefined, take |-> Undefined, joins |-> 0], NewExpressionMap, SingleCall) :
        meta \in [versionColumn : BOOLEAN, updateDateColumn : BOOLEAN],
        database \in {d \in Databases : Len(d) <= 1},
        lock \in {l \in LockSettings : l.lockMode = "optimistic"},
        tx \in {t \in TransactionSettings : t.queryRunner = NoRunner \/ (t.active /\ t.useTransaction)}}

\* Result caching, over several calls on the same builder: every cache
\* configuration without pagination, and two-phase pagination on a plain cache.
CacheScenarios ==
    {Scenario(Connection("postgres", cacheOpts), BothColumns, <<Row(1, 1, 1)>>,
              [lockMode |-> NoLock, lockVersion |-> NoVersion], tx,
              [skip |-> Undefined, take |-> Undefined, joins |-> 0], cached, MaxCalls) :
        cacheOpts \in CacheOptions,
        tx \in {t \in TransactionSettings : t.queryRunner = NoRunner},
        cached \in CacheSettings}
    \cup
    {Scenario(Connection("postgres", [NoCacheOptions EXCEPT !.t = "true"]), BothColumns,
              database, [lockMode |-> NoLock, lockVersion |-> NoVersion], tx,
              [skip |-> Undefined, take |-> Some(1), joins |-> 1], cached, MaxCalls) :
        database \in {d \in Databases : Len(d) >= 1 /\ d[1].version = Num(1)},
        tx \in {t \in TransactionSettings : t.queryRunner = NoRunner /\ ~t.useTransaction},
        cached \in CacheSettings}

\* The children of a parent row: up to MaxFanOut of them, with increasing
\* values of the child column.
Children ==
    {c \in UNION {[1..n -> 1..MaxFanOut] : n \in 1..MaxFanOut} :
        \A i \in 1..(Len(c) - 1) : c[i] < c[i + 1]}

FanOutDatabases ==
    {[i \in 1..n |-> [Row(i, 1, 1) EXCEPT !.children = c[i]]] :
        n \in 1..MaxRows, c \in [1..MaxRows -> Children]}

\* orderBy(...): none, by a column of the parent, by a column of the child.
OrderSettings ==
    {<<>>, <<[col |-> "id", order |-> "DESC"]>>, <<[col |-> "child", order |-> "ASC"]>>}

\* Two-phase pagination over a one-to-many join, every parent having children.
FanOutScenarios ==
    {[Scenario(Connection("postgres", NoCacheOptions), BothColumns, database,
               [lockMode |-> NoLock, lockVersion |-> NoVersion],
               [queryRunner |-> NoRunner, active |-> FALSE, useTransaction |-> FALSE],
               [skip |-> skip, take |-> take, joins |-> 1], NewExpressionMap, SingleCall)
         EXCEPT !.builder.expressionMap.orderBys = order] :
        database \in FanOutDatabases,
        order \in OrderSettings,
        skip \in {Undefined, Some(1)},
        take \in {Some(n) : n \in 1..MaxRows}}

\* A builder with every clause set: selection, join, where, group by, having,
\* order, limit and offset, skip and take, an option.
CountScenarios ==
    {[Scenario(Connection("postgres", NoCacheOptions), BothColumns, database,
               [lockMode |-> NoLock, lockVersion |-> NoVersion],
               [queryRunner |-> NoRunner, active |-> FALSE, useTransaction |-> tx],
               [skip |-> Some(1), take |-> Some(1), joins |-> 1], NewExpressionMap, SingleCall)
         EXCEPT !.builder.expressionMap.selects = <<[selection |-> "id", aliasName |-> Undefined]>>,
                !.builder.expressionMap.wheres = <<[type |-> "simple", condition |-> "w"]>>,
                !.builder.expressionMap.groupBys = <<"id">>,
                !.builder.expressionMap.havings = <<[type |-> "simple", condition |-> "h"]>>,
                !.builder.expressionMap.orderBys = <<[col |-> "id", order |-> "DESC"]>>,
                !.builder.expressionMap.limit = Some(1),
                !.builder.expressionMap.offset = Some(1),
                !.builder.expressionMap.options = <<"option">>] :
        database \in {d \in FanOutDatabases : Len(d) = MaxRows},
        tx \in BOOLEAN}

Scenarios ==
    LockScenarios \cup OptimisticScenarios \cup CacheScenarios \cup FanOutScenarios
    \cup CountScenarios

Init ==
    \E s \in Scenarios :
       /\ connection = s.connection
       /\ metadata = s.metadata
       /\ db = s.db
       /\ builders = [b \in BuilderIds |->
                         IF b = "qb" THEN s.builder
                         ELSE [expressionMap |-> NewExpressionMap, queryRunner |-> NoRunner]]
       /\ frames = <<>>
       /\ runners = [r \in {CallerRunner} |-> [isTransactionActive |-> s.active, released |-> 0]]
       /\ cache = <<>>
       /\ clock = 0
       /\ streamOpen = NoStream
       /\ outcome = [k |-> "none", value |-> NoValue, error |-> "none"]
       /\ calls = [made |-> 0, budget |-> s.budget]
       /\ hist = NoHistory

Next ==
    \/ Invoke \/ Tick
    \/ getRawOne \/ getRawMany \/ getRawAndEntities \/ getOne \/ getOneOrFail \/ getMany
    \/ getCount \/ getManyAndCount \/ stream
    \/ executeCountQuery \/ executeEntitiesAndRawResults \/ loadRawResults

Spec == Init /\ [][Next]_vars

----------------------------------------------------------------------------
(* Compilation: getQuery on a configured builder *)

Idle ==
    /\ metadata = BothColumns
    /\ db = <<>>
    /\ frames = <<>>
    /\ runners = [r \in {CallerRunner} |-> [isTransactionActive |-> FALSE, released |-> 0]]
    /\ cache = <<>>
    /\ clock = 0
    /\ streamOpen = NoStream
    /\ outcome = [k |-> "none", value |-> NoValue, error |-> "none"]
    /\ calls = [made |-> 0, budget |-> 0]
    /\ hist = NoHistory

\* limit(n), offset(n), take(n), skip(n): undefined or a number.
Numbers == {Undefined} \cup {Some(n) : n \in 0..MaxNumber}

\* setLock(lockMode, undefined, lockTables)
LockTables == {Undefined, Some(<<"t">>)}

\* A builder after limit, offset, take, skip, setLock, orderBy and joins.
CompileInit ==
    /\ \E driver \in Drivers : connection = Connection(driver, NoCacheOptions)
    /\ \E limit \in Numbers, offset \in Numbers, take \in Numbers, skip \in Numbers,
          joins \in 0..1, lockMode \in LockModes, lockTables \in LockTables,
          order \in {o \in OrderSettings : Len(o) = 0 \/ o[1].col = "id"} :
          builders = [b \in BuilderIds |->
                         [expressionMap |->
                             IF b = "qb"
                             THEN [NewExpressionMap EXCEPT !.limit = limit, !.offset = offset,
                                                           !.take = take, !.skip = skip,
                                                           !.joins = joins, !.orderBys = order,
                                                           !.lockMode = lockMode,
                                                           !.lockTables = lockTables]
                             ELSE NewExpressionMap,
                          queryRunner |-> NoRunner]]
    /\ Idle

\* The caller compiles the builder: getQuery().
getQuery_call ==
    /\ outcome.k = "none"
    /\ LET query == getQuery(connection.driver, builders["qb"].expressionMap)
       IN  outcome' = IF IsThrown(query)
                      THEN [k |-> "threw", value |-> NoValue, error |-> query.throws]
                      ELSE [k |-> "returned", value |-> Query(query.sql), error |-> "none"]
    /\ hist' = [hist EXCEPT !.method = "getQuery", !.entry = <<builders["qb"].expressionMap>>]
    /\ UNCHANGED <<connection, metadata, db, builders, frames, runners, cache, clock,
                   streamOpen, calls>>

CompileNext == getQuery_call

CompileSpec == CompileInit /\ [][CompileNext]_vars

----------------------------------------------------------------------------
(* Predicates: where / andWhere / orWhere and having / andHaving / orHaving *)

\* The condition strings a caller passes; getWhereCondition returns a string
\* condition as it is.
Conditions == {"", "a"}

getWhereCondition(where) == where

PredicateInit ==
    /\ connection = Connection("postgres", NoCacheOptions)
    /\ builders = [b \in BuilderIds |-> [expressionMap |-> NewExpressionMap, queryRunner |-> NoRunner]]
    /\ Idle

\* The builder after a mutator has run, and the record of the call.
Mutated(method, argument, em) ==
    /\ builders' = [builders EXCEPT !["qb"].expressionMap = em]
    /\ hist' = [hist EXCEPT !.method = method, !.arguments = <<argument>>,
                             !.entry = <<builders["qb"].expressionMap>>]
    /\ UNCHANGED <<connection, metadata, db, frames, runners, cache, clock, streamOpen,
                   outcome, calls>>

where_keepingEarlier ==
    \E w \in Conditions :
       LET em == builders["qb"].expressionMap
       IN  /\ Len(em.wheres) < MaxPredicates
           /\ Mutated("where", w,
                      [em EXCEPT !.wheres = Append(@, [type |-> "simple", condition |-> getWhereCondition(w)])])

where ==
    \E w \in Conditions :
       LET em == builders["qb"].expressionMap
           condition == getWhereCondition(w)
       IN  Mutated("where", w,
                   [em EXCEPT !.wheres = IF condition # ""
                                         THEN <<[type |-> "simple", condition |-> condition]>>
                                         ELSE <<>>])

andWhere ==
    \E w \in Conditions :
       LET em == builders["qb"].expressionMap
       IN  /\ Len(em.wheres) < MaxPredicates
           /\ Mutated("andWhere", w,
                      [em EXCEPT !.wheres = Append(@, [type |-> "and", condition |-> getWhereCondition(w)])])

orWhere ==
    \E w \in Conditions :
       LET em == builders["qb"].expressionMap
       IN  /\ Len(em.wheres) < MaxPredicates
           /\ Mutated("orWhere", w,
                      [em EXCEPT !.wheres = Append(@, [type |-> "or", condition |-> getWhereCondition(w)])])

having ==
    \E h \in Conditions :
       LET em == builders["qb"].expressionMap
       IN  /\ Len(em.havings) < MaxPredicates
           /\ Mutated("having", h,
                      [em EXCEPT !.havings = Append(@, [type |-> "simple", condition |-> h])])

andHaving ==
    \E h \in Conditions :
       LET em == builders["qb"].expressionMap
       IN  /\ Len(em.havings) < MaxPredicates
           /\ Mutated("andHaving", h,
                      [em EXCEPT !.havings = Append(@, [type |-> "and", condition |-> h])])

orHaving ==
    \E h \in Conditions :
       LET em == builders["qb"].expressionMap
       IN  /\ Len(em.havings) < MaxPredicates
           /\ Mutated("orHaving", h,
                      [em EXCEPT !.havings = Append(@, [type |-> "or", condition |-> h])])

PredicateNext == where \/ andWhere \/ orWhere \/ having \/ andHaving \/ orHaving

PredicateSpec == PredicateInit /\ [][PredicateNext]_vars

----------------------------------------------------------------------------
(* Selections: select / addSelect *)

\* The argument forms of select and addSelect: a literal expression, a list of
\* expressions, a sub-query factory (given by the query its builder compiles
\* to), or nothing.
SelectString(str) == [t |-> "string", s |-> str, list |-> <<>>]
SelectArray(list) == [t |-> "array", s |-> "", list |-> list]
SelectFunction(query) == [t |-> "function", s |-> query, list |-> <<>>]
SelectUndefined == [t |-> "undefined", s |-> "", list |-> <<>>]

SelectArguments ==
    {SelectString(str) : str \in {"", "x", "y"}}
    \cup {SelectArray(list) : list \in {<<>>, <<"x", "y">>}}
    \cup {SelectFunction("(q)"), SelectUndefined}

Selection(selection) == [selection |-> selection, aliasName |-> Undefined]

\* selection.map(selection => ({ selection: selection }))
selectionsOf(list) == [i \in 1..Len(list) |-> Selection(list[i])]

SelectInit == PredicateInit

WithinSelects(em) == Len(em.selects) <= MaxSelects

\* select(selection): the expression map after the call.
selectSetter(em, selection) ==
    CASE selection.t = "array" -> [em EXCEPT !.selects = selectionsOf(selection.list)]
      [] selection.t = "function" -> [em EXCEPT !.selects = Append(@, Selection(selection.s))]
      [] selection.t = "string" /\ selection.s # "" -> [em EXCEPT !.selects = <<Selection(selection.s)>>]
      [] OTHER -> em

\* addSelect(selection): the expression map after the call.
addSelectSetter(em, selection) ==
    CASE selection.t = "array" -> [em EXCEPT !.selects = @ \o selectionsOf(selection.list)]
      [] selection.t = "function" -> [em EXCEPT !.selects = Append(@, Selection(selection.s))]
      [] selection.t = "string" /\ selection.s # "" -> [em EXCEPT !.selects = Append(@, Selection(selection.s))]
      [] OTHER -> em

select ==
    \E selection \in SelectArguments :
       LET em == selectSetter(builders["qb"].expressionMap, selection)
       IN  WithinSelects(em) /\ Mutated("select", selection, em)

addSelect ==
    \E selection \in SelectArguments :
       LET em == addSelectSetter(builders["qb"].expressionMap, selection)
       IN  WithinSelects(em) /\ Mutated("addSelect", selection, em)

SelectNext == select \/ addSelect

SelectSpec == SelectInit /\ [][SelectNext]_vars

----------------------------------------------------------------------------
(* Aliases and joins: from, addFrom, join, withDeleted, loadRelationIdAndMap,
   loadRelationCountAndMap *)

AliasNames == {"a", "b"}

\* What the alias registry does with a requested name that is taken.
AliasPolicies == {"fail", "suffix"}

RECURSIVE freeName(_, _)
freeName(names, name) == IF name \in names THEN freeName(names, name \o "_") ELSE name

aliasNames(aliases) == {aliases[i].name : i \in 1..Len(aliases)}

createAlias_asRequested(aliases, type, name, policy) ==
    [ok |-> TRUE, name |-> name, aliases |-> Append(aliases, [type |-> type, name |-> name])]

\* expressionMap.createAlias({ type, name, ... }): the alias sequence after the
\* call and the name given to the new alias, or the failure.
createAlias(aliases, type, name, policy) ==
    IF name \in aliasNames(aliases) /\ policy = "fail"
    THEN [ok |-> FALSE, name |-> name, aliases |-> aliases]
    ELSE LET unique == freeName(aliasNames(aliases), name)
         IN  [ok |-> TRUE, name |-> unique,
              aliases |-> Append(aliases, [type |-> type, name |-> unique])]

\* expressionMap.setMainAlias(alias): the previous main alias leaves the
\* registry ("removes all previously set from-s").
setMainAlias(em, aliases, name) ==
    [em EXCEPT !.aliases = IF em.mainAlias = Undefined THEN aliases
                           ELSE SelectSeq(aliases, LAMBDA a : a.name # em.mainAlias[1]),
               !.mainAlias = Some(name)]

fromSetter(em, aliasName, policy) ==
    LET mainAlias == createAlias(em.aliases, "from", aliasName, policy)
    IN  IF ~mainAlias.ok THEN Failed(em, "TypeORMError")
        ELSE Done(setMainAlias(em, mainAlias.aliases, mainAlias.name))

addFromSetter(em, aliasName, policy) ==
    LET alias == createAlias(em.aliases, "from", aliasName, policy)
    IN  IF ~alias.ok THEN Failed(em, "TypeORMError")
        ELSE IF em.mainAlias = Undefined
        THEN Done(setMainAlias(em, alias.aliases, alias.name))
        ELSE Done([em EXCEPT !.aliases = alias.aliases])

\* What join is given as entityOrProperty: an entity with or without a
\* delete-date column, a many-to-many relation of the main entity to an entity
\* with a delete-date column, or a table path.
JoinTargets ==
    {[name |-> "Entity", metadata |-> TRUE, deleteDateColumn |-> TRUE, relation |-> FALSE, junction |-> FALSE],
     [name |-> "Plain", metadata |-> TRUE, deleteDateColumn |-> FALSE, relation |-> FALSE, junction |-> FALSE],
     [name |-> "post.tags", metadata |-> TRUE, deleteDateColumn |-> TRUE, relation |-> TRUE, junction |-> TRUE],
     [name |-> "table", metadata |-> FALSE, deleteDateColumn |-> FALSE, relation |-> FALSE, junction |-> FALSE]}

JoinConditions == {Undefined, Some("c")}

\* leftJoin and its variants; innerJoin differs in the direction text only.
JoinDirections == {"LEFT"}

\* `${aliasName}.${deleteDateColumn.propertyName} IS NULL`
conditionDeleteColumn(aliasName) == aliasName \o ".deletedAt IS NULL"

\* parentAlias + "_" + destinationTableAlias
junctionAliasOf(parentAlias, aliasName) == parentAlias \o "_" \o aliasName

joinCondition_ignoringWithDeleted(em, entityOrProperty, aliasName, condition) ==
    IF entityOrProperty.metadata /\ entityOrProperty.deleteDateColumn
    THEN IF condition # Undefined
         THEN <<KW(condition[1]), KW("AND"), KW(conditionDeleteColumn(aliasName))>>
         ELSE <<KW(conditionDeleteColumn(aliasName))>>
    ELSE IF condition # Undefined THEN <<KW(condition[1])>> ELSE <<>>

\* joinAttribute.condition as join leaves it, as the tokens of the text.
joinCondition(em, entityOrProperty, aliasName, condition) ==
    IF entityOrProperty.metadata /\ entityOrProperty.deleteDateColumn /\ ~em.withDeleted
    THEN IF condition # Undefined
         THEN <<KW(condition[1]), KW("AND"), KW(conditionDeleteColumn(aliasName))>>
         ELSE <<KW(conditionDeleteColumn(aliasName))>>
    ELSE IF condition # Undefined THEN <<KW(condition[1])>> ELSE <<>>

joinSetter(em, direction, entityOrProperty, aliasName, condition, policy) ==
    LET joinAttribute == [direction |-> direction, entityOrProperty |-> entityOrProperty,
                          aliasName |-> aliasName,
                          condition |-> joinCondition(em, entityOrProperty, aliasName, condition),
                          alias |-> Undefined,
                          junctionAlias |-> junctionAliasOf("post", aliasName)]
        index == Len(em.joinAttributes) + 1
        pushed == [em EXCEPT !.joinAttributes = Append(@, joinAttribute), !.joins = @ + 1]
        alias == createAlias(em.aliases, "join", aliasName, policy)
        created == [pushed EXCEPT !.aliases = alias.aliases,
                                  !.joinAttributes[index].alias = Some(alias.name)]
        junction == createAlias(alias.aliases, "join", joinAttribute.junctionAlias, policy)
    IN  IF ~alias.ok THEN Failed(pushed, "TypeORMError")
        ELSE IF entityOrProperty.metadata /\ entityOrProperty.relation /\ entityOrProperty.junction
        THEN IF ~junction.ok THEN Failed(created, "TypeORMError")
             ELSE Done([created EXCEPT !.aliases = junction.aliases])
        ELSE Done(created)

\* The relations loadRelationIdAndMap and loadRelationCountAndMap are given:
\* many-to-many (with a junction entity) or not.
Relations ==
    {[name |-> "post.tags", junction |-> TRUE], [name |-> "post.author", junction |-> FALSE]}

loadRelationIdAndMapSetter(em, relation, policy) ==
    LET relationIdAttribute == [relationName |-> relation.name,
                                junctionAlias |-> relation.name \o "_rid"]
        pushed == [em EXCEPT !.relationIdAttributes = Append(@, relationIdAttribute)]
        alias == createAlias(em.aliases, "other", relationIdAttribute.junctionAlias, policy)
    IN  IF ~relation.junction THEN Done(pushed)
        ELSE IF ~alias.ok THEN Failed(pushed, "TypeORMError")
        ELSE Done([pushed EXCEPT !.aliases = alias.aliases])

loadRelationCountAndMapSetter(em, relation, policy) ==
    LET relationCountAttribute == [relationName |-> relation.name,
                                   junctionAlias |-> relation.name \o "_rc"]
        pushed == [em EXCEPT !.relationCountAttributes = Append(@, relationCountAttribute)]
        first == createAlias(em.aliases, "other", relationCountAttribute.junctionAlias, policy)
        second == createAlias(first.aliases, "other", relationCountAttribute.junctionAlias, policy)
    IN  IF ~first.ok THEN Failed(pushed, "TypeORMError")
        ELSE IF ~relation.junction THEN Done([pushed EXCEPT !.aliases = first.aliases])
        ELSE IF ~second.ok THEN Failed([pushed EXCEPT !.aliases = first.aliases], "TypeORMError")
        ELSE Done([pushed EXCEPT !.aliases = second.aliases])

\* createJoinExpression: the join clauses, as tokens; reading the alias of a
\* join attribute that never got one fails.
joinExpression(joinAttr) ==
    LET appendedCondition ==
            IF joinAttr.condition # <<>>
            THEN <<KW("AND"), KW("(")>> \o joinAttr.condition \o <<KW(")")>> ELSE <<>>
    IN  IF ~joinAttr.entityOrProperty.relation
        THEN <<KW(joinAttr.direction), KW("JOIN"), KW(joinAttr.entityOrProperty.name),
               KW(joinAttr.alias[1])>>
             \o (IF joinAttr.condition # <<>> THEN <<KW("ON")>> \o joinAttr.condition ELSE <<>>)
        ELSE <<KW(joinAttr.direction), KW("JOIN"), KW("junction"), KW(joinAttr.junctionAlias),
               KW("ON"), KW("junctionCondition"),
               KW(joinAttr.direction), KW("JOIN"), KW(joinAttr.entityOrProperty.name),
               KW(joinAttr.alias[1]), KW("ON"), KW("destinationCondition")>>
             \o appendedCondition

RECURSIVE joinExpressions(_, _)
joinExpressions(joinAttributes, index) ==
    IF index > Len(joinAttributes) THEN <<>>
    ELSE joinExpression(joinAttributes[index]) \o joinExpressions(joinAttributes, index + 1)

createJoinExpression(em) ==
    IF \E i \in 1..Len(em.joinAttributes) : em.joinAttributes[i].alias = Undefined
    THEN Thrown("TypeError")
    ELSE Sql(joinExpressions(em.joinAttributes, 1))

JoinInit ==
    /\ connection = Connection("postgres", NoCacheOptions)
    /\ builders = [b \in BuilderIds |-> [expressionMap |-> NewExpressionMap, queryRunner |-> NoRunner]]
    /\ metadata = BothColumns
    /\ db = <<>>
    /\ frames = <<>>
    /\ runners = [r \in {CallerRunner} |-> [isTransactionActive |-> FALSE, released |-> 0]]
    /\ cache = <<>>
    /\ clock = 0
    /\ streamOpen = NoStream
    /\ outcome = [k |-> "none", value |-> NoValue, error |-> "none"]
    /\ calls = [made |-> 0, budget |-> MaxMutations]
    /\ hist = NoHistory

\* A mutator call of the caller: the builder it leaves, its outcome and the
\* record of the call.
Called(method, arguments, result) ==
    /\ calls.made < calls.budget
    /\ calls' = [calls EXCEPT !.made = @ + 1]
    /\ builders' = [builders EXCEPT !["qb"].expressionMap = result.em]
    /\ outcome' = IF result.error = "none"
                  THEN [k |-> "returned", value |-> NoValue, error |-> "none"]
                  ELSE [k |-> "threw", value |-> NoValue, error |-> result.error]
    /\ hist' = [hist EXCEPT !.method = method, !.arguments = arguments,
                             !.entry = <<builders["qb"].expressionMap>>]
    /\ UNCHANGED <<connection, metadata, db, frames, runners, cache, clock, streamOpen>>

from ==
    \E aliasName \in AliasNames, policy \in AliasPolicies :
       Called("from", <<aliasName>>, fromSetter(builders["qb"].expressionMap, aliasName, policy))

addFrom ==
    \E aliasName \in AliasNames, policy \in AliasPolicies :
       Called("addFrom", <<aliasName>>, addFromSetter(builders["qb"].expressionMap, aliasName, policy))

join ==
    \E direction \in JoinDirections, entityOrProperty \in JoinTargets,
       aliasName \in AliasNames, condition \in JoinConditions, policy \in AliasPolicies :
       Called("join", <<aliasName>>,
              joinSetter(builders["qb"].expressionMap, direction, entityOrProperty, aliasName,
                         condition, policy))

withDeleted ==
    Called("withDeleted", <<>>, Done([builders["qb"].expressionMap EXCEPT !.withDeleted = TRUE]))

loadRelationIdAndMap ==
    \E relation \in Relations, policy \in AliasPolicies :
       Called("loadRelationIdAndMap", <<relation.name>>,
              loadRelationIdAndMapSetter(builders["qb"].expressionMap, relation, policy))

loadRelationCountAndMap ==
    \E relation \in Relations, policy \in AliasPolicies :
       Called("loadRelationCountAndMap", <<relation.name>>,
              loadRelationCountAndMapSetter(builders["qb"].expressionMap, relation, policy))

JoinNext ==
    \/ from
    \/ addFrom
    \/ join
    \/ withDeleted
    \/ loadRelationIdAndMap
    \/ loadRelationCountAndMap

JoinSpec == JoinInit /\ [][JoinNext]_vars

----------------------------------------------------------------------------
(* The count expression: computeCountExpression *)

PrimaryColumnNames == <<"id", "id2", "id3", "id4">>

\* metadata.primaryColumns of the main alias, one to MaxPrimaryColumns columns.
PrimaryColumns == {SubSeq(PrimaryColumnNames, 1, n) : n \in 1..MaxPrimaryColumns}

\* primaryColumns.map(c => `${distinctAlias}.${escape(c.databaseName)}`).join(separator)
RECURSIVE joinColumns(_, _, _, _)
joinColumns(distinctAlias, primaryColumns, separator, index) ==
    IF index > Len(primaryColumns) THEN <<>>
    ELSE (IF index > 1 THEN <<KW(separator)>> ELSE <<>>)
         \o <<KW(distinctAlias \o "." \o primaryColumns[index])>>
         \o joinColumns(distinctAlias, primaryColumns, separator, index + 1)

computeCountExpression_alwaysConcat(driver, em, primaryColumns) ==
    LET distinctAlias == em.mainAlias[1]
    IN  IF /\ Len(em.joinAttributes) = 0
           /\ Len(em.relationIdAttributes) = 0
           /\ Len(em.relationCountAttributes) = 0
        THEN <<KW("COUNT(1)")>>
        ELSE IF driver \in {"cockroachdb", "postgres"}
        THEN <<KW("COUNT(DISTINCT(")>> \o joinColumns(distinctAlias, primaryColumns, ", ", 1)
             \o <<KW("))")>>
        ELSE IF driver = "mysql"
        THEN <<KW("COUNT(DISTINCT ")>> \o joinColumns(distinctAlias, primaryColumns, ", ", 1)
             \o <<KW(")")>>
        ELSE IF driver = "mssql"
        THEN <<KW("COUNT(DISTINCT(CONCAT(")>>
             \o joinColumns(distinctAlias, primaryColumns, ", '|;|', ", 1) \o <<KW(")))")>>
        ELSE <<KW("COUNT(DISTINCT(")>>
             \o joinColumns(distinctAlias, primaryColumns, " || '|;|' || ", 1) \o <<KW("))")>>

\* computeCountExpression(), as the tokens of the text.
computeCountExpression(driver, em, primaryColumns) ==
    LET distinctAlias == em.mainAlias[1]
    IN  IF /\ Len(em.joinAttributes) = 0
           /\ Len(em.relationIdAttributes) = 0
           /\ Len(em.relationCountAttributes) = 0
        THEN <<KW("COUNT(1)")>>
        ELSE IF driver \in {"cockroachdb", "postgres"}
        THEN <<KW("COUNT(DISTINCT(")>> \o joinColumns(distinctAlias, primaryColumns, ", ", 1)
             \o <<KW("))")>>
        ELSE IF driver = "mysql"
        THEN <<KW("COUNT(DISTINCT ")>> \o joinColumns(distinctAlias, primaryColumns, ", ", 1)
             \o <<KW(")")>>
        ELSE IF driver = "mssql"
        THEN IF Len(primaryColumns) = 1
             THEN <<KW("COUNT(DISTINCT(")>>
                  \o joinColumns(distinctAlias, primaryColumns, ", '|;|', ", 1) \o <<KW("))")>>
             ELSE <<KW("COUNT(DISTINCT(CONCAT(")>>
                  \o joinColumns(distinctAlias, primaryColumns, ", '|;|', ", 1) \o <<KW(")))")>>
        ELSE <<KW("COUNT(DISTINCT(")>>
             \o joinColumns(distinctAlias, primaryColumns, " || '|;|' || ", 1) \o <<KW("))")>>

\* The builders the count is asked of: a main alias, and a join (of a table,
\* selecting nothing), a relation-id attribute and a relation-count attribute
\* each present or not.
CountBuilders ==
    LET main == fromSetter(NewExpressionMap, "a", "suffix").em
        joined(em, j) ==
            IF j THEN joinSetter(em, "LEFT", CHOOSE t \in JoinTargets : ~t.metadata, "b",
                                 Undefined, "suffix").em
            ELSE em
        withId(em, i) == IF i THEN loadRelationIdAndMapSetter(em, CHOOSE r \in Relations : ~r.junction, "suffix").em ELSE em
        withCount(em, c) == IF c THEN loadRelationCountAndMapSetter(em, CHOOSE r \in Relations : ~r.junction, "suffix").em ELSE em
    IN  {withCount(withId(joined(main, j), i), c) : j \in BOOLEAN, i \in BOOLEAN, c \in BOOLEAN}

CountInit ==
    /\ \E driver \in Drivers : connection = Connection(driver, NoCacheOptions)
    /\ \E em \in CountBuilders :
          builders = [b \in BuilderIds |->
                         [expressionMap |-> IF b = "qb" THEN em ELSE NewExpressionMap,
                          queryRunner |-> NoRunner]]
    /\ \E primaryColumns \in PrimaryColumns :
          metadata = [versionColumn |-> TRUE, updateDateColumn |-> TRUE,
                      primaryColumns |-> primaryColumns]
    /\ db = <<>>
    /\ frames = <<>>
    /\ runners = [r \in {CallerRunner} |-> [isTransactionActive |-> FALSE, released |-> 0]]
    /\ cache = <<>>
    /\ clock = 0
    /\ streamOpen = NoStream
    /\ outcome = [k |-> "none", value |-> NoValue, error |-> "none"]
    /\ calls = [made |-> 0, budget |-> 0]
    /\ hist = NoHistory

\* executeCountQuery computes the count expression (line 1905).
computeCountExpression_call ==
    /\ outcome.k = "none"
    /\ outcome' = [k |-> "returned",
                   value |-> Query(computeCountExpression(connection.driver,
                                                          builders["qb"].expressionMap,
                                                          metadata.primaryColumns)),
                   error |-> "none"]
    /\ hist' = [hist EXCEPT !.method = "computeCountExpression",
                             !.entry = <<builders["qb"].expressionMap>>]
    /\ UNCHANGED <<connection, metadata, db, builders, frames, runners, cache, clock,
                   streamOpen, calls>>

CountNext == computeCountExpression_call

CountSpec == CountInit /\ [][CountNext]_vars

----------------------------------------------------------------------------
(* Validating mutators: limit, offset, skip, take, orderBy, addOrderBy *)

\* What the callers pass as a number: nothing, a number, not-a-number, a
\* string that is a number and one that is not.
NumberArguments ==
    {UndefinedArg, NumberArg(1), NumberArg(NaN), StringArg(<<"1">>), StringArg(<<"abc">>)}

OrderArguments == {"ASC", "DESC", "asc"}

NullsArguments == {Undefined, Some("NULLS FIRST"), Some("first")}

ValidationInit == JoinInit

limit ==
    \E n \in NumberArguments :
       Called("limit", <<n>>, limitSetter(builders["qb"].expressionMap, n))

offset ==
    \E n \in NumberArguments :
       Called("offset", <<n>>, offsetSetter(builders["qb"].expressionMap, n))

take ==
    \E n \in NumberArguments :
       Called("take", <<n>>, takeSetter(builders["qb"].expressionMap, n))

skip ==
    \E n \in NumberArguments :
       Called("skip", <<n>>, skipSetter(builders["qb"].expressionMap, n))

orderBy ==
    \E sort \in {Undefined, Some("id")}, order \in OrderArguments, nulls \in NullsArguments :
       Called("orderBy", <<order, nulls>>,
              orderBySetter(builders["qb"].expressionMap, sort, order, nulls))

addOrderBy ==
    \E sort \in {"id", "name"}, order \in OrderArguments, nulls \in NullsArguments :
       Called("addOrderBy", <<order, nulls>>,
              addOrderBySetter(builders["qb"].expressionMap, sort, order, nulls))

ValidationNext ==
    \/ limit
    \/ offset
    \/ take
    \/ skip
    \/ orderBy
    \/ addOrderBy

ValidationSpec == ValidationInit /\ [][ValidationNext]_vars

----------------------------------------------------------------------------
(* Properties *)

qb == builders["qb"].expressionMap
Settled == frames = <<>> /\ calls.made > 0
ThrewError(e) == outcome.k = "threw" /\ outcome.error = e

\* C1: startTransaction is called only when the model asks for a transaction
\* and the runner reports none active; commitTransaction and rollbackTransaction
\* are called only by the method that started the transaction, so a transaction
\* that was active on entry is never committed or rolled back.
C1_OnlyOwnedTransactionIsEnded ==
    [][/\ hist'.startTransaction > hist.startTransaction =>
             /\ expressionMap(Top.this).useTransaction
             /\ ~runners[Top.queryRunner].isTransactionActive
       /\ (\/ hist'.commitTransaction > hist.commitTransaction
           \/ hist'.rollbackTransaction > hist.rollbackTransaction) =>
             /\ Top.transactionStartedByUs
             /\ ~Top.activeOnEntry
             /\ ~hist.activeOnEntry]_vars

C1_Witness_ActiveOnEntryFailed ==
    /\ Settled /\ outcome.k = "threw"
    /\ qb.useTransaction /\ hist.activeOnEntry
    /\ hist.query = 1
    /\ hist.startTransaction = 0 /\ hist.commitTransaction = 0 /\ hist.rollbackTransaction = 0

\* C2: when execution fails inside a transaction the orchestrator started,
\* rollbackTransaction is attempted exactly once and the caller sees the
\* original error.
C2_RollbackOnceOriginalError ==
    (Settled /\ hist.failedInTransaction # "none") =>
        /\ hist.rollbackTransaction = 1
        /\ ThrewError(hist.failedInTransaction)

\* C3: the query runner the caller supplied is never released.
C3_CallerRunnerNeverReleased ==
    /\ runners[CallerRunner].released = 0
    /\ hist.releaseCaller = 0

C3_Witness_CallerRunnerCallFailed ==
    /\ Settled /\ outcome.k = "threw"
    /\ builders["qb"].queryRunner = CallerRunner
    /\ hist.query = 1

\* C4: a query runner the orchestrator acquired itself is released when the
\* call is over (for stream: released, or its release callback is with the
\* driver of a started stream).
C4_CreatedRunnerReleased ==
    (Settled /\ hist.createQueryRunner > 0) =>
        \/ runners[CreatedRunner].released > 0
        \/ streamOpen.open

\* C5: with a pessimistic lock mode, on a driver that compiles the lock, and
\* no transaction active where the query would be dispatched, the call fails
\* with PessimisticLockTransactionRequiredError and nothing is sent to the driver.
C5_PessimisticLockNeedsTransaction ==
    (qb.lockMode \in PessimisticModes /\ ~qb.useTransaction /\ calls.made > 0
        /\ ~runners[CallerRunner].isTransactionActive
        /\ ~IsThrown(getQuery(connection.driver, qb))) =>
        /\ hist.query = 0 /\ hist.stream = 0
        /\ Settled => ThrewError("PessimisticLockTransactionRequiredError")

\* C6: with lock mode optimistic, getRawMany, getRawOne, getCount, stream,
\* getMany and getManyAndCount fail with OptimisticLockCanNotBeUsedError before
\* a runner is acquired, a transaction started, or the driver or cache is used.
C6_OptimisticLockRejectedEarly ==
    (qb.lockMode = "optimistic"
        /\ hist.method \in {"getRawMany", "getRawOne", "getCount", "stream", "getMany", "getManyAndCount"}) =>
        /\ hist.createQueryRunner = 0 /\ hist.startTransaction = 0
        /\ hist.query = 0 /\ hist.stream = 0
        /\ hist.getFromCache = 0 /\ hist.storeInCache = 0
        /\ Settled => ThrewError("OptimisticLockCanNotBeUsedError")

\* C7: with lock mode optimistic and a schema with neither a version column
\* nor an update-date column, getOne, getOneOrFail and getRawAndEntities send
\* no query and fail with NoVersionOrUpdateDateColumnError, and the transaction
\* the call started is rolled back (unless starting it failed already).
C7_NoVersionColumnRejected ==
    (qb.lockMode = "optimistic" /\ ~metadata.versionColumn /\ ~metadata.updateDateColumn
        /\ hist.method \in {"getOne", "getOneOrFail", "getRawAndEntities"}) =>
        /\ hist.query = 0 /\ hist.stream = 0 /\ hist.getFromCache = 0
        /\ Settled =>
             \/ ThrewError("StartTransactionError") /\ hist.rollbackTransaction = 0
             \/ /\ ThrewError("NoVersionOrUpdateDateColumnError")
                /\ hist.rollbackTransaction = hist.startTransaction
                /\ hist.commitTransaction = 0

C7_Witness_OwnedTransactionRolledBack ==
    /\ Settled /\ ThrewError("NoVersionOrUpdateDateColumnError")
    /\ qb.lockMode = "optimistic" /\ ~metadata.versionColumn /\ ~metadata.updateDateColumn
    /\ hist.method \in {"getOne", "getOneOrFail", "getRawAndEntities"}
    /\ hist.startTransaction = 1 /\ hist.rollbackTransaction = 1

\* C8: getOne with lock mode optimistic and a stored lock version: when the
\* first hydrated entity's version (version column for a number, update date
\* for a date) differs from the stored one the call fails with
\* OptimisticLockVersionMismatchError, and when they are equal it returns the
\* entity; for every stored number >= 0.
C8_OptimisticVersionChecked ==
    (Settled /\ hist.method = "getOne" /\ qb.lockMode = "optimistic" /\ hist.firstEntity # <<>>
        /\ \/ qb.lockVersion.t = "number" /\ metadata.versionColumn
           \/ qb.lockVersion.t = "date" /\ metadata.updateDateColumn) =>
        LET result == hist.firstEntity[1]
            actualVersion == IF qb.lockVersion.t = "number" THEN result.version ELSE result.updateDate
        IN  IF actualVersion # qb.lockVersion
            THEN ThrewError("OptimisticLockVersionMismatchError")
            ELSE outcome.k = "returned" /\ outcome.value = Entity(result)

\* The builder is the same at the entry of this call and of the call before it
\* (queryEntity aside, which every execution method sets for itself).
C9_Unmodified ==
    [hist.entry[1] EXCEPT !.queryEntity = FALSE]
        = [hist.previous[1].entry[1] EXCEPT !.queryEntity = FALSE]

\* A settled call that looked the cache up without a cache error, after a call
\* of the same method that stored everything it looked up.
C9_SecondAfterStored ==
    /\ Settled /\ hist.previous # <<>>
    /\ hist.previous[1].method = hist.method
    /\ C9_Unmodified
    /\ hist.cacheErrors = 0 /\ hist.getFromCache > 0

\* The time between the two calls does not exceed the cache duration.
C9_WithinDuration ==
    hist.clock - hist.previous[1].clock <= cacheDurationOf(qb)

\* C9: two consecutive executions of the same method on the unmodified,
\* cache-enabled builder, the first of which stored everything it looked up:
\* within the duration the second finds the entries of the first, returns the
\* deserialized stored rows, sends no query and stores nothing; once the
\* duration has passed it queries the driver again.
C9_CacheRoundTrip ==
    C9_SecondAfterStored =>
        IF C9_WithinDuration THEN
            /\ hist.query = 0 /\ hist.storeInCache = 0
            /\ hist.load.state = "returned" /\ hist.load.found # <<>>
            /\ LET found == hist.load.found[1]
                   lookup == hist.load.lookup[1]
               IN  /\ found.time = hist.previous[1].clock
                   /\ found.identifier = lookup.identifier /\ found.query = lookup.query
                   /\ hist.load.returned = <<JSONparse(found.result)>>
                   /\ hist.method = "getRawMany" /\ outcome.k = "returned" =>
                          outcome.value = Rows(JSONparse(found.result))
        ELSE hist.query >= 1

C9_Witness_HitAfterTimePassed ==
    /\ C9_SecondAfterStored /\ C9_WithinDuration
    /\ hist.clock > hist.previous[1].clock
    /\ outcome.k = "returned" /\ hist.query = 0

\* No cache flag and no always-enabled option, or no cache backend.
C10_CachingDisabled(em) ==
    \/ connection.options.cache.t = "undefined"
    \/ ~em.cache /\ ~(connection.options.cache.t = "object" /\ connection.options.cache.alwaysEnabled)

\* The lookup of the latest loadRawResults answered with no entry or an expired one.
C10_MissOrExpired ==
    /\ hist.load.lookup # <<>> /\ ~hist.load.lookupFailed
    /\ \/ hist.load.found = <<>>
       \/ hist.load.found[1].time + hist.load.found[1].duration < hist.clock

\* C10: when the lookup finds no entry or an expired one, loadRawResults
\* sends exactly one query and, once it succeeded, stores exactly once with
\* the identifier, query and duration of the lookup, passing the expired entry
\* as the previous one; a failed query stores nothing; with caching disabled
\* there is neither a lookup nor a store.
C10_MissQueriesThenStores ==
    /\ (hist.load.state \in {"returned", "threw"} /\ C10_MissOrExpired) =>
          /\ hist.load.queries = 1
          /\ hist.load.queryFailed => hist.load.stores = <<>>
          /\ ~hist.load.queryFailed =>
                /\ Len(hist.load.stores) = 1
                /\ hist.load.stores[1].identifier = hist.load.lookup[1].identifier
                /\ hist.load.stores[1].query = hist.load.lookup[1].query
                /\ hist.load.stores[1].duration = hist.load.lookup[1].duration
                /\ hist.load.previous = hist.load.found
    /\ hist.load.stores # <<>> => hist.load.queries = 1 /\ ~hist.load.queryFailed
    /\ (hist.load.state # "none" /\ C10_CachingDisabled(builders[hist.load.this].expressionMap)) =>
          hist.load.lookup = <<>> /\ hist.load.stores = <<>>

C10_Witness_ExpiredEntryReplaced ==
    /\ hist.load.state = "returned" /\ C10_MissOrExpired
    /\ hist.load.found # <<>> /\ hist.load.previous = hist.load.found
    /\ Len(hist.load.stores) = 1 /\ hist.load.stores[1].time = hist.clock

\* The cache policy ignores errors: connection.options.cache is an object with ignoreErrors.
C11_IgnoreErrors ==
    connection.options.cache.t = "object" /\ connection.options.cache.ignoreErrors

C11_CacheErrors == {"CacheGetError", "CacheStoreError"}

\* C11: when a cache lookup or store fails and errors are ignored, the cache
\* error is not surfaced, the driver is queried exactly once and its rows are
\* returned, and after a failed lookup nothing is stored; when the policy is
\* strict the cache error reaches the caller and the transaction the call
\* started is rolled back.
C11_CacheFailures ==
    /\ (hist.load.state \in {"returned", "threw"} /\ hist.load.lookupFailed /\ C11_IgnoreErrors) =>
          /\ hist.load.queries = 1 /\ hist.load.stores = <<>>
          /\ IF hist.load.queryFailed THEN hist.load.state = "threw"
             ELSE /\ hist.load.state = "returned"
                  /\ hist.load.returned = <<queryRecords(builders[hist.load.this].expressionMap)>>
    /\ (hist.load.state \in {"returned", "threw"} /\ hist.load.storeFailed /\ C11_IgnoreErrors) =>
          /\ hist.load.queries = 1 /\ hist.load.state = "returned"
          /\ hist.load.returned = <<queryRecords(builders[hist.load.this].expressionMap)>>
    /\ (hist.load.state \in {"returned", "threw"} /\ ~C11_IgnoreErrors
            /\ (hist.load.lookupFailed \/ hist.load.storeFailed)) =>
          hist.load.state = "threw"
    /\ (Settled /\ hist.cacheErrors > 0) =>
          IF C11_IgnoreErrors THEN outcome.error \notin C11_CacheErrors
          ELSE /\ outcome.k = "threw" /\ outcome.error \in C11_CacheErrors
               /\ hist.rollbackTransaction = hist.startTransaction
               /\ hist.commitTransaction = 0

C11_Witness_IgnoredLookupError ==
    /\ Settled /\ outcome.k = "returned" /\ C11_IgnoreErrors
    /\ hist.load.lookupFailed /\ hist.load.queries = 1 /\ hist.load.stores = <<>>
    /\ qb.useTransaction /\ hist.commitTransaction = 1

\* C12: over the getManyAndCount calls on a builder with a cache identifier,
\* no cache access of the main query uses an identifier under which a result
\* of the count query was stored, and no cache access of the count query uses
\* one under which a result of the main query was stored.
C12_CountIdentifierNeverCollides ==
    (hist.method = "getManyAndCount" /\ hist.load.lookup # <<>>
        /\ hist.load.lookup[1].identifier # Undefined) =>
        IF builders[hist.load.this].expressionMap.query = "count"
        THEN hist.load.lookup[1].identifier \notin hist.stored.main
        ELSE hist.load.lookup[1].identifier \notin hist.stored.count

C13_FirstPhaseIds == [i \in 1..Len(hist.firstPhase[1]) |-> idOf(hist.firstPhase[1][i])]

\* C13: under two-phase pagination (skip or take set and at least one join), a
\* first phase that returns zero rows is followed by no second query, no
\* hydration and an empty raw and entity result; a first phase that returns at
\* least one row is followed by exactly one second query, restricted to exactly
\* the primary keys the first phase returned.
C13_TwoPhasePagination ==
    /\ hist.firstPhase = <<>> => hist.secondPhase = <<>>
    /\ (hist.firstPhase # <<>> /\ hist.firstPhase[1] = <<>>) =>
           /\ hist.secondPhase = <<>>
           /\ ~hist.hydrated
           /\ (Settled /\ hist.method = "getRawAndEntities" /\ outcome.k = "returned") =>
                  outcome.value = RawAndEntities(<<>>, <<>>)
    /\ (hist.firstPhase # <<>> /\ hist.firstPhase[1] # <<>>) =>
           /\ hist.secondPhase \in {<<>>, <<C13_FirstPhaseIds>>}
           /\ (Settled \/ hist.hydrated) => hist.secondPhase = <<C13_FirstPhaseIds>>
           /\ (hist.load.this = "page" /\ hist.load.queries > 0) =>
                  /\ hist.load.queries = 1
                  /\ builders["page"].expressionMap.extraAppendedAndWhereCondition = C13_FirstPhaseIds

C13_Witness_SecondPhaseRestricted ==
    /\ Settled /\ outcome.k = "returned"
    /\ Len(db) = 2
    /\ hist.firstPhase # <<>> /\ Len(hist.firstPhase[1]) = 1
    /\ hist.secondPhase = <<C13_FirstPhaseIds>>
    /\ hist.load.this = "page" /\ hist.load.queries = 1
    /\ hist.hydrated

C13_Witness_EmptyFirstPhase ==
    /\ Settled /\ outcome.k = "returned" /\ hist.method = "getRawAndEntities"
    /\ hist.firstPhase = << <<>> >>
    /\ hist.secondPhase = <<>>
    /\ hist.query = 1

C14_Parents == transform(selectRecords(qb))

C14_Min(a, b) == IF a < b THEN a ELSE b

C14_FanOutPage ==
    /\ Settled /\ hist.method = "getMany" /\ outcome.k = "returned"
    /\ twoPhasePagination(qb)
    /\ \A i \in 1..Len(db) : db[i].children # <<>>

\* C14: over a parent table joined one-to-many to a child table (every parent
\* with one or more children) and under any caller ordering, getMany with
\* skip = s and take = t returns exactly min(t, max(0, P - s)) distinct
\* parents, P being the number of matching parents: the parents at positions
\* s+1..s+t of the requested order, in that order.
C14_PageOfDistinctParents ==
    C14_FanOutPage =>
        LET s == IF Truthy(qb.skip) THEN qb.skip[1] ELSE 0
            P == Len(C14_Parents)
            page == Window(C14_Parents, qb.take, qb.skip)
        IN  /\ outcome.value = Entities(page)
            /\ Truthy(qb.take) =>
                   Len(outcome.value.entities) = C14_Min(qb.take[1], IF P > s THEN P - s ELSE 0)

----------------------------------------------------------------------------
(* Properties of compilation, under CompileSpec *)

Compiled == hist.method = "getQuery"

\* The LIMIT/OFFSET clause rendered from one pair of values alone.
C15_Rendered(limitValue, offsetValue) ==
    createLimitOffsetExpression(connection.driver,
        [qb EXCEPT !.limit = limitValue, !.offset = offsetValue,
                   !.take = Undefined, !.skip = Undefined])

C15_FromLimitOffset == C15_Rendered(qb.limit, qb.offset)

C15_FromTakeSkip == C15_Rendered(qb.take, qb.skip)

\* C15: pagination intents are never merged: for every limit, offset, skip,
\* take and join count the compiled LIMIT/OFFSET clause takes both values from
\* (limit, offset) or both from (take, skip); (take, skip) is used only when
\* the model has zero joins and neither limit nor offset is set; with at least
\* one join, skip / take never appear in the compiled SQL and instead trigger
\* the two-phase strategy at execution.
C15_IntentsNeverMerged ==
    Compiled =>
        LET clause == createLimitOffsetExpression(connection.driver, qb)
        IN  /\ clause \in {C15_FromLimitOffset, C15_FromTakeSkip}
            /\ (qb.joins = 0 /\ qb.limit = Undefined /\ qb.offset = Undefined)
                   \/ clause = C15_FromLimitOffset
            /\ qb.joins > 0 =>
                   /\ clause = C15_FromLimitOffset
                   /\ (qb.skip # Undefined \/ qb.take # Undefined) => twoPhasePagination(qb)

Contains(sql, clause) ==
    \E i \in 1..(Len(sql) - Len(clause) + 1) : SubSeq(sql, i, i + Len(clause) - 1) = clause

C16_OffsetWithoutLimit == Compiled /\ qb.limit = Undefined /\ qb.offset # Undefined /\ qb.offset[1] >= 1

C16_OffsetClause ==
    CASE connection.driver = "sqlite" -> <<KW("LIMIT -1 OFFSET"), N(qb.offset)>>
      [] connection.driver \in {"mssql", "oracle"} -> <<KW("OFFSET"), N(qb.offset), KW("ROWS")>>
      [] OTHER -> <<KW("OFFSET"), N(qb.offset)>>

\* C16: with offset set to a value >= 1 and no limit, compiling on MySQL,
\* Aurora Data API or SAP raises OffsetWithoutLimitNotSupportedError and emits
\* no SQL; on every other dialect the LIMIT/OFFSET clause compiles and
\* contains exactly that offset: LIMIT -1 OFFSET m on SQLite, OFFSET m ROWS on
\* SQL Server and Oracle, OFFSET m otherwise.
C16_OffsetWithoutLimitByDialect ==
    C16_OffsetWithoutLimit =>
        IF connection.driver \in {"mysql", "aurora-data-api", "sap"}
        THEN /\ ThrewError("OffsetWithoutLimitNotSupportedError")
             /\ outcome.value = NoValue
        ELSE /\ outcome.error # "OffsetWithoutLimitNotSupportedError"
             /\ outcome.k = "threw" => IsThrown(createLockExpression(connection.driver, qb))
             /\ outcome.k = "returned" =>
                    /\ Contains(outcome.value.sql, C16_OffsetClause)
                    /\ \A i \in 1..Len(outcome.value.sql) :
                          outcome.value.sql[i].k = "number" => outcome.value.sql[i].n = qb.offset[1]

C16_Witness_RejectedOnSap ==
    /\ C16_OffsetWithoutLimit /\ connection.driver = "sap"
    /\ qb.take = Some(1) /\ qb.joins = 0
    /\ ThrewError("OffsetWithoutLimitNotSupportedError")

C16_Witness_CompiledOnSqlite ==
    /\ C16_OffsetWithoutLimit /\ connection.driver = "sqlite"
    /\ qb.offset = Some(2) /\ qb.take = Some(1)
    /\ outcome.k = "returned"

C17_OffsetUnset == [qb EXCEPT !.offset = Undefined]

C17_OffsetZero == [qb EXCEPT !.offset = Some(0)]

\* C17: for every dialect and every limit n >= 1, limit = n with offset = 0
\* compiles to exactly the same LIMIT/OFFSET clause as limit = n with offset
\* unset, whatever skip, take and joins the model has.
C17_OffsetZeroIsNoOffset ==
    (Compiled /\ qb.limit # Undefined /\ qb.limit[1] >= 1) =>
        /\ createLimitOffsetExpression(connection.driver, C17_OffsetZero)
              = createLimitOffsetExpression(connection.driver, C17_OffsetUnset)
        /\ (qb.offset = Some(0) /\ outcome.k = "returned") =>
              outcome.value.sql = getQuery(connection.driver, C17_OffsetUnset).sql
        /\ (qb.offset = Some(0) /\ outcome.k = "threw") =>
              getQuery(connection.driver, C17_OffsetUnset) = Thrown(outcome.error)

C17_Witness_OffsetZeroOnSqlServer ==
    /\ Compiled /\ connection.driver = "mssql"
    /\ qb.limit = Some(2) /\ qb.offset = Some(0)
    /\ qb.skip = Some(1) /\ qb.take = Some(1) /\ qb.joins = 1
    /\ outcome.k = "returned"
    /\ Contains(outcome.value.sql, <<KW("OFFSET 0 ROWS FETCH NEXT"), N(qb.limit), KW("ROWS ONLY")>>)

C18_NonOptimisticModes ==
    {"pessimistic_read", "pessimistic_write", "dirty_read", "pessimistic_partial_write",
     "pessimistic_write_or_fail", "for_no_key_update"}

C18_LockRequested ==
    /\ Compiled
    /\ qb.lockMode \in C18_NonOptimisticModes
    /\ qb.lockTables = Undefined
    /\ ~IsThrown(createLimitOffsetExpression(connection.driver, qb))

\* The lock tokens of a compiled query: the FROM clause's table hint and the
\* trailing lock clause.
C18_LockingText(sql) ==
    SelectSeq(sql, LAMBDA token :
        \/ token \in {KW("WITH (HOLDLOCK, ROWLOCK)"), KW("WITH (UPDLOCK, ROWLOCK)"), KW("WITH (NOLOCK)")}
        \/ token \in {KW("LOCK IN SHARE MODE"), KW("FOR SHARE"), KW("FOR UPDATE"),
                       KW("FOR UPDATE SKIP LOCKED"), KW("FOR UPDATE NOWAIT"),
                       KW("FOR NO KEY UPDATE"), KW("SKIP LOCKED"), KW("NOWAIT")})

\* C18: lock compilation is total and never silent: for every dialect and
\* every non-optimistic lock mode, compiling either produces SQL that contains
\* the locking text of that (dialect, mode) pair (a trailing lock clause, or a
\* table hint on SQL Server) or raises LockNotSupportedOnGivenDriverError; no
\* combination compiles to SQL without any locking text.
C18_LockNeverSilent ==
    C18_LockRequested =>
        \/ ThrewError("LockNotSupportedOnGivenDriverError")
        \/ /\ outcome.k = "returned"
           /\ C18_LockingText(outcome.value.sql) # <<>>
           /\ C18_LockingText(outcome.value.sql)
                 = selectLockHint(connection.driver, qb) \o createLockExpression(connection.driver, qb).sql

----------------------------------------------------------------------------
(* Properties of the predicate lists, under PredicateSpec *)

C19_Before == hist.entry[1].wheres

\* C19: after any sequence of where / andWhere / orWhere, where(c) with a
\* non-empty c leaves the where list equal to the one element {simple, c};
\* andWhere(c) and orWhere(c) append exactly one element, with the combinator
\* "and" / "or", and leave the earlier elements and their order unchanged.
C19_WhereResetsOthersAppend ==
    /\ (hist.method = "where" /\ hist.arguments[1] # "") =>
           qb.wheres = <<[type |-> "simple", condition |-> hist.arguments[1]]>>
    /\ hist.method = "andWhere" =>
           qb.wheres = C19_Before \o <<[type |-> "and", condition |-> hist.arguments[1]]>>
    /\ hist.method = "orWhere" =>
           qb.wheres = C19_Before \o <<[type |-> "or", condition |-> hist.arguments[1]]>>

C19_Witness_WhereAfterOthers ==
    /\ hist.method = "where" /\ hist.arguments = <<"a">>
    /\ Len(C19_Before) = MaxPredicates
    /\ C19_Before[1].type = "or"
    /\ Len(qb.wheres) = 1

C19_Witness_Appended ==
    /\ hist.method = "orWhere"
    /\ Len(C19_Before) = 1 /\ C19_Before[1].type = "simple"
    /\ Len(qb.wheres) = 2

\* C20: in the where list and in the having list an element with the simple
\* combinator occurs only at index 0, after any sequence of where / andWhere /
\* orWhere and having / andHaving / orHaving.
C20_SimpleOnlyFirst ==
    /\ \A i \in 2..Len(qb.wheres) : qb.wheres[i].type # "simple"
    /\ \A i \in 2..Len(qb.havings) : qb.havings[i].type # "simple"

\* C21: having(c) overrides the HAVING conditions set before it: after any
\* sequence of having / andHaving / orHaving followed by having(c), the having
\* list contains only the condition c and the compiled HAVING clause contains
\* only c.
C21_HavingOverrides ==
    (hist.method = "having" /\ hist.arguments[1] # "") =>
        /\ qb.havings = <<[type |-> "simple", condition |-> hist.arguments[1]]>>
        /\ createHavingExpression(qb) = <<KW("HAVING"), KW(hist.arguments[1])>>

----------------------------------------------------------------------------
(* Properties of the select list, under SelectSpec *)

C22_Given ==
    LET x == hist.arguments[1]
    IN  IF x.t = "array" THEN selectionsOf(x.list) ELSE <<Selection(x.s)>>

C22_Accepted ==
    /\ hist.arguments # <<>>
    /\ hist.arguments[1].t \in {"string", "array", "function"}
    /\ hist.arguments[1].t = "string" => hist.arguments[1].s # ""

\* C22: select replaces and addSelect appends, for every accepted argument
\* form: after any sequence of select / addSelect calls, select(x) with x a
\* literal expression, a list of expressions or a sub-query factory leaves the
\* select list with exactly the selections x gives and none of the earlier
\* ones; addSelect(x) keeps the earlier selections in order and appends the
\* new ones at the end.
C22_SelectReplacesAddSelectAppends ==
    /\ (hist.method = "select" /\ C22_Accepted) => qb.selects = C22_Given
    /\ (hist.method = "addSelect" /\ C22_Accepted) => qb.selects = hist.entry[1].selects \o C22_Given

----------------------------------------------------------------------------
(* Properties of joins and aliases, under JoinSpec *)

C23_SoftDeleteConjuncts == {KW(conditionDeleteColumn(aliasName)) : aliasName \in AliasNames}

C23_Compiles == ~IsThrown(createJoinExpression(qb))

\* C23: withDeleted suppresses the soft-delete conjunct whatever the order of
\* the calls: when the withDeleted flag is set at compile time, no compiled
\* join condition contains the implicit "<alias>.<marker> IS NULL" conjunct, in
\* whatever order withDeleted() and the joins were called; when it is not set,
\* the compiled condition of every join whose target declares a delete-marker
\* column contains that conjunct for the join's alias.
C23_WithDeletedSuppressesSoftDelete ==
    C23_Compiles =>
        /\ qb.withDeleted =>
               \A i \in 1..Len(createJoinExpression(qb).sql) :
                  createJoinExpression(qb).sql[i] \notin C23_SoftDeleteConjuncts
        /\ ~qb.withDeleted =>
               \A i \in 1..Len(qb.joinAttributes) :
                  (qb.joinAttributes[i].entityOrProperty.metadata
                   /\ qb.joinAttributes[i].entityOrProperty.deleteDateColumn) =>
                      Contains(joinExpression(qb.joinAttributes[i]),
                               <<KW(conditionDeleteColumn(qb.joinAttributes[i].aliasName))>>)

C24_Names == [i \in 1..Len(qb.aliases) |-> qb.aliases[i].name]

----------------------------------------------------------------------------
(* Properties of the count expression, under CountSpec *)

C25_Counted == hist.method = "computeCountExpression" /\ outcome.k = "returned"

C25_Plain ==
    /\ Len(qb.joinAttributes) = 0
    /\ Len(qb.relationIdAttributes) = 0
    /\ Len(qb.relationCountAttributes) = 0

\* The dialects that take a column tuple in DISTINCT (lines 1857-1871).
C25_TupleDistinctDrivers == {"cockroachdb", "postgres", "mysql"}

C25_ConcatTokens ==
    {KW("COUNT(DISTINCT(CONCAT("), KW(")))"), KW(", '|;|', "), KW(" || '|;|' || ")}

C25_DistinctOpenings == {KW("COUNT(DISTINCT("), KW("COUNT(DISTINCT "), KW("COUNT(DISTINCT(CONCAT(")}

\* The column references of the expression, in order.
C25_ColumnsOf(sql) ==
    SelectSeq(sql, LAMBDA token :
        \E i \in 1..Len(metadata.primaryColumns) :
           token = KW(qb.mainAlias[1] \o "." \o metadata.primaryColumns[i]))

\* C25: the count expression is COUNT(1) exactly when the builder has no
\* join, no relation-id attribute and no relation-count attribute; with any of
\* them it is a COUNT(DISTINCT ...) over exactly the primary columns of the
\* main alias, in order, on every driver, and it concatenates the columns only
\* when there is more than one primary column and the driver is not one that
\* takes a column tuple in DISTINCT.
C25_CountExpression ==
    C25_Counted =>
        LET sql == outcome.value.sql
        IN  /\ (sql = <<KW("COUNT(1)")>>) <=> C25_Plain
            /\ ~C25_Plain =>
                   /\ sql[1] \in C25_DistinctOpenings
                   /\ C25_ColumnsOf(sql) =
                          [i \in 1..Len(metadata.primaryColumns) |->
                              KW(qb.mainAlias[1] \o "." \o metadata.primaryColumns[i])]
                   /\ (\E i \in 1..Len(sql) : sql[i] \in C25_ConcatTokens) =>
                          /\ Len(metadata.primaryColumns) > 1
                          /\ connection.driver \notin C25_TupleDistinctDrivers

\* One join that selects nothing, a two-column primary key, SQL Server: the
\* columns are concatenated.
C25_Witness_Concat ==
    /\ C25_Counted
    /\ Len(qb.joinAttributes) = 1
    /\ Len(qb.relationIdAttributes) = 0
    /\ Len(qb.relationCountAttributes) = 0
    /\ connection.driver = "mssql"
    /\ Len(metadata.primaryColumns) = 2
    /\ outcome.value.sql[1] = KW("COUNT(DISTINCT(CONCAT(")

----------------------------------------------------------------------------
(* Properties of the validating mutators, under ValidationSpec *)

C27_NumberMutators == {"limit", "offset", "take", "skip"}

C27_OrderMutators == {"orderBy", "addOrderBy"}

\* The last call was given a value that does not pass validation.
C27_Invalid ==
    \/ /\ hist.method \in C27_NumberMutators
       /\ normalizeNumber(hist.arguments[1]) # Undefined
       /\ isNaN(normalizeNumber(hist.arguments[1])[1])
    \/ /\ hist.method \in C27_OrderMutators
       /\ ~validOrder(hist.arguments[1], hist.arguments[2])

\* C27: a mutator that fails validation leaves the builder unchanged: when
\* limit, offset, skip or take is given a value whose numeric coercion is
\* not-a-number, or orderBy / addOrderBy an order outside {ASC, DESC} or a
\* nulls value outside {NULLS FIRST, NULLS LAST}, the call throws and every
\* slot of the expression map, the slot being set included, holds the value it
\* held before the call.
C27_FailedMutatorChangesNothing ==
    C27_Invalid => (outcome.k = "threw" /\ qb = hist.entry[1])

----------------------------------------------------------------------------
(* Properties of the count query, under Spec *)

\* The count query has been sent to the driver during this call.
C26_CountSent == hist.load.this = "count" /\ hist.load.queries > 0

C26_Sent == builders["count"].expressionMap

----------------------------------------------------------------------------
(* Properties of getManyAndCount, under Spec *)

\* C28: getManyAndCount leaves the cache identifier of the builder unchanged:
\* when the call has returned or thrown, expressionMap.cacheId is
\* what it was when the call was made.
C28_CacheIdUnchanged ==
    (Settled /\ hist.method = "getManyAndCount") => qb.cacheId = hist.entry[1].cacheId

----------------------------------------------------------------------------
(* Properties of the owned transaction, under Spec *)

\* The call is over and it had started a transaction of its own.
C29_Owned == Settled /\ hist.startTransaction = 1 /\ ~ThrewError("StartTransactionError")

\* No step of the execution body failed (the commit may have).
C29_BodySucceeded == hist.failedInTransaction \in {"none", "CommitError"}

C29_Ended ==
    C29_Owned =>
        /\ hist.commitTransaction = (IF C29_BodySucceeded THEN 1 ELSE 0)
        /\ hist.rollbackTransaction = (IF hist.failedInTransaction # "none" THEN 1 ELSE 0)
        /\ hist.commitTransaction + hist.rollbackTransaction >= 1

\* A finally block releases the runner of a call that started a transaction
\* (stream has no finally block: it leaves the release to the driver).
C29_ReleasedAfterEnd ==
    (/\ frames # <<>>
     /\ Top.pc = "finally"
     /\ hist'.releaseCreated > hist.releaseCreated
     /\ Top.transactionStartedByUs) =>
        hist.commitTransaction + hist.rollbackTransaction >= 1

\* C29: for a transaction the call started itself, commitTransaction is
\* called exactly when every step of the execution body succeeded (for
\* getManyAndCount the entity query and the count query) and
\* rollbackTransaction exactly when a step or the commit failed; commit is
\* never called after a failure, a runner the call created is released only
\* after the commit or the rollback was attempted, and no call returns or
\* throws without having attempted one of the two.
C29_CommitOrRollback == []C29_Ended /\ [][C29_ReleasedAfterEnd]_vars

----------------------------------------------------------------------------
(* Properties of the nested first-phase execution, under Spec *)

\* The first-phase query builder is executing.
C30_Nested == frames # <<>> /\ Top.this = "ids"

C30_EntityMethods == {"getRawAndEntities", "getOne", "getOneOrFail", "getMany", "getManyAndCount"}

C30_OneRunner ==
    /\ \A i, j \in 1..Len(frames) :
          (frames[i].queryRunner # NoRunner /\ frames[j].queryRunner # NoRunner) =>
              frames[i].queryRunner = frames[j].queryRunner
    /\ ~(\E i, j \in 1..Len(frames) : frames[i].this = "ids" /\ frames[j].this = "page")
    /\ hist.secondPhase # <<>> => hist.firstPhase # <<>>
    /\ (/\ Settled
        /\ hist.method \in C30_EntityMethods
        /\ twoPhasePagination(hist.entry[1])
        /\ hist.createQueryRunner > 0) =>
           /\ hist.createQueryRunner = 1
           /\ hist.releaseCreated = 1
           /\ runners[CreatedRunner].released = 1

C30_NestedStep ==
    /\ C30_Nested =>
           /\ hist'.createQueryRunner = hist.createQueryRunner
           /\ hist'.startTransaction = hist.startTransaction
           /\ hist'.commitTransaction = hist.commitTransaction
           /\ hist'.rollbackTransaction = hist.rollbackTransaction
           /\ hist'.releaseCreated = hist.releaseCreated
           /\ hist'.releaseCaller = hist.releaseCaller
           /\ \A r \in DOMAIN runners : r \in DOMAIN runners' /\ runners'[r] = runners[r]
    /\ (C30_Nested /\ hist'.query > hist.query) =>
           /\ Top.queryRunner = frames[top - 1].queryRunner
           /\ InOwnedTransaction => runners[Top.queryRunner].isTransactionActive
    /\ (hist.method \in C30_EntityMethods /\ hist'.releaseCreated > hist.releaseCreated) =>
           \A i \in 1..Len(frames) :
              frames[i].this = "qb" /\ frames[i].fn # "executeEntitiesAndRawResults"

\* C30: during two-phase pagination the first-phase query runs on the query
\* runner of the outer call and inside its transaction: the nested execution
\* creates no runner, starts, commits and rolls back no transaction and
\* releases no runner; the two phases are never in progress together, the
\* second starting after the first returned; and a runner the outer call
\* created is released exactly once, after the last phase finished or failed.
C30_NestedOnOuterRunner == []C30_OneRunner /\ [][C30_NestedStep]_vars

\* A paginated call that created its runner and started a transaction ran both
\* phases and returned.
C30_Witness_BothPhasesInTransaction ==
    /\ Settled /\ outcome.k = "returned"
    /\ hist.method \in C30_EntityMethods
    /\ hist.firstPhase # <<>> /\ hist.secondPhase # <<>>
    /\ hist.createQueryRunner = 1 /\ hist.startTransaction = 1
    /\ hist.commitTransaction = 1 /\ hist.releaseCreated = 1

====
